---- MODULE Spec2Model ----
(***************************************************************************)
(* Gatify request-admission pipeline.                                      *)
(*                                                                         *)
(*   SpecSW      the Redis sliding-window store: clients compute the two   *)
(*               bucket keys and the elapsed time, the server runs         *)
(*               luaSlidingWindowCheck as one step.                        *)
(*   SpecGW      GatewayProxy.ServeHTTP, statement by statement, against   *)
(*               SetMatcher.                                               *)
(*   SpecBroker  StatsStreamBroker: Publish, Subscribe, unsubscribe and    *)
(*               the subscribers' receives.                                *)
(*   SpecLog     the analytics Logger: Log callers, the batching worker,   *)
(*               flush outcomes and Close.                                 *)
(*   SpecRules   rules.New and Matcher.Match applied to submitted rule     *)
(*               sets.                                                     *)
(*   SpecMatch   Matcher.Match called by concurrent goroutines on one      *)
(*               compiled matcher.                                         *)
(*   SpecIdentity  clientKey and the per-rule limiter key applied to       *)
(*               pairs of requests.                                        *)
(*   SpecKeys    the store key of the per-rule check and of the global     *)
(*               limiter's check, for pairs of requests.                   *)
(*   SpecLimiter Limiter.Allow against every answer of its store.          *)
(*   SpecStorage RedisStorage's operations and Close, goroutine by         *)
(*               goroutine, under rs.mu.                                   *)
(***************************************************************************)
EXTENDS Integers, Sequences, FiniteSets, TLC

VARIABLES
    \* ---- sliding-window store (internal/storage) ----
    now,        \* wall clock, in time units of window/WindowMs
    redis,      \* Redis keyspace: <<key, bucket>> -> [val, exp]
    swLimit,    \* the limit the callers pass (a rule's or the limiter's)
    swFull,     \* whether earlier traffic had filled bucket 0 when the run began
    swPc,       \* per caller: "idle", "script" (arguments computed), "done"
    swArgs,     \* per caller: KEYS and ARGV of the pending EVALSHA
    swRet,      \* per caller: what the script returned, and for which bucket key
    swCalls,    \* number of calls started so far
    swAdmits,   \* instant |-> number of checks the script admitted at that instant
    swRun,      \* the calls and clock ticks this run is bounded to
    \* ---- gateway (internal/proxy) ----
    gpMatcher,    \* gp.matcher: the reference the field holds
    gpInstalled,  \* history: the reference the constructor or the last SetMatcher was given
    gpSwaps,      \* number of SetMatcher calls so far
    gpStore,      \* gp.store != nil
    gpLimiter,    \* gp.limiter != nil
    gpEventSink,  \* gp.eventSink != nil
    rqPc,         \* per request: "idle", "match", "rule", "global", "upstream", "done", "panic"
    rqReq,        \* per request: the request, with the identity clientKey derived
    rqTested,     \* per request: the reference line 124 compared with nil
    rqUsed,       \* per request: the reference line 125 called Match on
    rqSeen,       \* history: references installed between the request's start and its Match
    rqRule,       \* per request: the local copy of match.Rule
    rqCall,       \* per request: arguments of its CheckSlidingWindow or Allow call
    rqOut,        \* per request: what that call returned
    rqEvents,     \* per request: the Events handed to publishEvent, in order
    rqSunk,       \* per request: how many of them the event sink received
    rqHdr,        \* per request: the X-RateLimit-* response headers
    rqFwd,        \* per request: gp.proxy.ServeHTTP was called
    rqResp,       \* per request: who answered the client, and with what status
    rqBody,       \* per request: the "error" member of the JSON body the gateway wrote
    \* ---- live event broker (internal/api) ----
    brBufferSize, \* b.bufferSize
    brSubs,       \* keys of b.subscribers
    brNextID,     \* b.nextID
    brChan,       \* per subscriber id: its channel [buf, closed]
    brPub,        \* per publisher: [pc, ev, todo] of its Publish call
    brSeq,        \* number of Publish calls started; a call's event is its number
    brEnded,      \* history: events whose Publish has returned
    brBefore,     \* history: per event, the events whose Publish had returned when it began
    brLive,       \* history: per subscriber, events published while it was registered
    brRecv,       \* per subscriber: events received, in order
    brEos,        \* per subscriber: a receive reported the channel closed
    brCancelled,  \* per subscriber: its unsubscribe function has returned
    brCancelCalls, \* per subscriber: calls of its unsubscribe function so far
    brCloses,     \* per subscriber: close(ch) executions on its channel
    \* ---- analytics logger (internal/analytics) ----
    lgBufferSize, \* cap(l.events)
    lgBatchSize,  \* l.batchSize
    lgEvents,     \* l.events: the buffered channel
    lgDone,       \* l.done is closed
    lgWorker,     \* the worker goroutine: "run", "drain", "exit"
    lgBatch,      \* the worker's batch
    lgLogged,     \* l.eventsLogged
    lgDropped,    \* l.eventsDropped
    lgPc,         \* per Log caller: [pc, ev], pc "idle" or "drop"
    lgCalls,      \* number of Log calls started; a call's event is its number
    lgLate,       \* history: a Log call started after Close was called
    lgPreClose,   \* history: events in the channel before Close was called
    lgFlushed,    \* history: events handed to flush
    lgTaken,      \* history: the events the worker received, in order
    lgFlushes,    \* history: the batches handed to flush, one per call, in order
    lgFailed,     \* history: events of flushes that failed, with the failing call
    lgPersisted,  \* history: rows committed to rate_limit_events
    lgClose,      \* Close: "none", "wait", "nil", "timeout"
    \* ---- rules.New and Matcher.Match on their own ----
    rlRules,      \* the rules submitted to New, in submission order
    rlPc,         \* "init", "new" (New has returned), "matched" (Match has returned)
    rlNew,        \* what New returned
    rlReq,        \* the method and path given to Match
    rlMatch,      \* what Match returned
    \* ---- request identity (clientKey, rule key) on its own ----
    ckTrust,      \* gp.trustProxy
    ckRule,       \* the matched rule
    ckReq,        \* two requests: X-Forwarded-For, RemoteAddr, the rule's header
    ckPc,         \* "init", "done" (both identities derived)
    ckOut,        \* per request: what clientKey returned and the limiter key
    \* ---- limiter (internal/limiter) ----
    lmLimit,      \* l.limit
    lmWindow,     \* l.window
    lmPc,         \* Allow: "idle", "store" (inside the store's call), "done"
    lmKey,        \* the key Allow was given
    lmCalls,      \* the CheckSlidingWindow calls the store received from this Allow
    lmOut,        \* what the store returned
    lmRet,        \* what Allow returned
    lmAllows,     \* number of Allow calls so far
    \* ---- RedisStorage: operations and Close ----
    rsClosed,       \* rs.closed
    rsReaders,      \* goroutines holding rs.mu shared
    rsWriter,       \* the goroutine holding rs.mu alone, 0 if none
    rsCall,         \* per goroutine: [pc, op, late, n] of its call
    rsRet,          \* per goroutine: [op, late, ret] of its last finished call
    rsCalls,        \* number of calls so far
    rsCloses,       \* number of Close calls that have returned
    rsClientCloses, \* number of rs.client.Close() calls
    rsLateCmds,     \* history: operations that sent a command though called after a Close returned
    \* ---- Matcher.Match, concurrent callers ----
    mtRules,      \* the rule set the matcher was built from
    mtMatcher,    \* m.compiled
    mtPc,         \* per goroutine: "idle", "loop" (inside Match), "done"
    mtReq,        \* per goroutine: the method and path given to Match
    mtIdx,        \* per goroutine: index of the compiled rule the loop is at
    mtRet,        \* per goroutine: what its last Match returned
    mtCalls,      \* number of Match calls so far
    \* ---- store keys of two requests ----
    kyScope,      \* per request: the rule Match returned, NoRule if none did
    kyReq,        \* per request: X-Forwarded-For, RemoteAddr, the rule's header
    kyPc,         \* per request: "idle", "done" (the store was called)
    kyKey         \* per request: the key the store was given, and for what

swVars == <<now, redis, swLimit, swFull, swPc, swArgs, swRet, swCalls, swAdmits, swRun>>
gwVars == <<gpMatcher, gpInstalled, gpSwaps, gpStore, gpLimiter, gpEventSink,
            rqPc, rqReq, rqTested, rqUsed, rqSeen, rqRule, rqCall, rqOut,
            rqEvents, rqSunk, rqHdr, rqFwd, rqResp, rqBody>>
brVars == <<brBufferSize, brSubs, brNextID, brChan, brPub, brSeq, brEnded,
            brBefore, brLive, brRecv, brEos, brCancelled, brCancelCalls, brCloses>>

lgVars == <<lgBufferSize, lgBatchSize, lgEvents, lgDone, lgWorker, lgBatch, lgLogged,
            lgDropped, lgPc, lgCalls, lgLate, lgPreClose, lgFlushed, lgFailed, lgPersisted,
            lgClose,
            lgTaken, lgFlushes>>

rlVars == <<rlRules, rlPc, rlNew, rlReq, rlMatch>>
ckVars == <<ckTrust, ckRule, ckReq, ckPc, ckOut>>
lmVars == <<lmLimit, lmWindow, lmPc, lmKey, lmCalls, lmOut, lmRet, lmAllows>>
rsVars == <<rsClosed, rsReaders, rsWriter, rsCall, rsRet, rsCalls, rsCloses, rsClientCloses,
            rsLateCmds>>
mtVars == <<mtRules, mtMatcher, mtPc, mtReq, mtIdx, mtRet, mtCalls>>
kyVars == <<kyScope, kyReq, kyPc, kyKey>>
vars == <<swVars, gwVars, brVars, lgVars, rlVars, ckVars, lmVars, rsVars, mtVars, kyVars>>

\* what the actions of one component leave alone
notSW == <<gwVars, brVars, lgVars, rlVars, ckVars, lmVars, rsVars, mtVars, kyVars>>
notGW == <<swVars, brVars, lgVars, rlVars, ckVars, lmVars, rsVars, mtVars, kyVars>>
notBR == <<swVars, gwVars, lgVars, rlVars, ckVars, lmVars, rsVars, mtVars, kyVars>>
notLG == <<swVars, gwVars, brVars, rlVars, ckVars, lmVars, rsVars, mtVars, kyVars>>
notRL == <<swVars, gwVars, brVars, lgVars, ckVars, lmVars, rsVars, mtVars, kyVars>>
notCK == <<swVars, gwVars, brVars, lgVars, rlVars, lmVars, rsVars, mtVars, kyVars>>
notLM == <<swVars, gwVars, brVars, lgVars, rlVars, ckVars, rsVars, mtVars, kyVars>>
notRS == <<swVars, gwVars, brVars, lgVars, rlVars, ckVars, lmVars, mtVars, kyVars>>
notMT == <<swVars, gwVars, brVars, lgVars, rlVars, ckVars, lmVars, rsVars, kyVars>>
notKY == <<swVars, gwVars, brVars, lgVars, rlVars, ckVars, lmVars, rsVars, mtVars>>

Min(a, b) == IF a < b THEN a ELSE b
Max(a, b) == IF a > b THEN a ELSE b

(***************************************************************************)
(* Lua numbers are IEEE-754 doubles.  A non-negative double is held as a   *)
(* bit sequence (most significant first) and a scale:                      *)
(*     value = bits * 2^(-scale).                                          *)
(* Every operation rounds to nearest, ties to even, to Mant bits.          *)
(***************************************************************************)
Mant == 53

\* 2^i mod W for i <= 90, inside 32-bit integers (W < 46341)
Pow2Mod(i, W) ==
    LET a == Min(i, 30)
        b == Min(i - a, 30)
        c == i - a - b
    IN  ((((2 ^ a) % W) * ((2 ^ b) % W)) % W * ((2 ^ c) % W)) % W

\* i-th binary digit after the point of e/W, 0 <= e < W
FracDigit(e, W, i) == (2 * ((e * Pow2Mod(i - 1, W)) % W)) \div W

\* index of the leading 1, 0 when there is none
FirstOne(bits) ==
    IF \E i \in 1..Len(bits) : bits[i] = 1
    THEN CHOOSE i \in 1..Len(bits) : bits[i] = 1 /\ \A j \in 1..(i - 1) : bits[j] = 0
    ELSE 0

\* bits + 1; one bit longer when every bit is 1
Incr(bits) ==
    LET n == Len(bits)
    IN  IF \A i \in 1..n : bits[i] = 1
        THEN <<1>> \o [i \in 1..n |-> 0]
        ELSE LET k == CHOOSE i \in 1..n : bits[i] = 0 /\ \A j \in (i + 1)..n : bits[j] = 1
             IN  [i \in 1..n |-> IF i < k THEN bits[i] ELSE IF i = k THEN 1 ELSE 0]

\* round to nearest, ties to even, keeping Mant significant bits
RoundDouble(bits, sticky) ==
    LET i == FirstOne(bits)
        n == Len(bits)
    IN  IF i = 0 \/ n - i + 1 <= Mant THEN bits
        ELSE LET keep  == SubSeq(bits, 1, i + Mant - 1)
                 guard == bits[i + Mant]
                 st    == sticky \/ \E j \in (i + Mant + 1)..n : bits[j] = 1
                 up    == guard = 1 /\ (st \/ keep[Len(keep)] = 1)
                 kept  == IF up THEN Incr(keep) ELSE keep
             IN  kept \o [j \in 1..(n - (i + Mant - 1)) |-> 0]

\* elapsed_ms / window_ms
LuaDiv(e, W) ==
    IF e = 0 THEN [bits |-> <<0>>, scale |-> 0]
    ELSE LET z == (CHOOSE i \in 1..32 : FracDigit(e, W, i) = 1
                        /\ \A j \in 1..(i - 1) : FracDigit(e, W, j) = 0) - 1
             n == z + Mant + 1
             sticky == (e * Pow2Mod(n, W)) % W # 0
         IN  [bits |-> RoundDouble([i \in 1..n |-> FracDigit(e, W, i)], sticky),
              scale |-> n]

\* 1 - q, for 0 <= q < 1
LuaOneMinus(q) ==
    LET m   == SubSeq(q.bits, Len(q.bits) - q.scale + 1, Len(q.bits))
        inv == [j \in 1..Len(m) |-> 1 - m[j]]
    IN  [bits |-> RoundDouble(Incr(inv), FALSE), scale |-> q.scale]

\* a + b for bit sequences of equal length n, as n + 1 bits (carry look-ahead)
AddBits(a, b) ==
    LET n == Len(a)
        A == <<0>> \o a
        B == <<0>> \o b
        C(i) == \E j \in (i + 1)..(n + 1) : A[j] = 1 /\ B[j] = 1
                     /\ \A k \in (i + 1)..(j - 1) : A[k] = 1 \/ B[k] = 1
    IN  [i \in 1..(n + 1) |-> (A[i] + B[i] + (IF C(i) THEN 1 ELSE 0)) % 2]

\* bits * p for a small integer p, exactly
RECURSIVE MulSmall(_, _)
MulSmall(bits, p) ==
    IF p = 0 THEN [i \in 1..Len(bits) |-> 0]
    ELSE LET hi == MulSmall(bits, p \div 2) \o <<0>>
             lo == IF p % 2 = 1 THEN [i \in 1..(Len(hi) - Len(bits)) |-> 0] \o bits
                                ELSE [i \in 1..Len(hi) |-> 0]
         IN  AddBits(hi, lo)

\* previous_count * weight
LuaMul(p, w) == [bits |-> RoundDouble(MulSmall(w.bits, p), FALSE), scale |-> w.scale]

\* math.floor
LuaFloor(x) ==
    LET k  == Len(x.bits) - x.scale
        i0 == IF k <= 0 THEN 0 ELSE FirstOne(SubSeq(x.bits, 1, k))
    IN  IF i0 = 0 THEN 0
        ELSE CHOOSE v \in 0..(2 ^ (k - i0 + 1) - 1) :
                 \A i \in i0..k : x.bits[i] = (v \div (2 ^ (k - i))) % 2

\* local weight = 1 - (elapsed_ms / window_ms)
\* math.floor(previous_count * weight)
LuaWeightedFloor(previous_count, elapsed_ms, window_ms) ==
    IF previous_count = 0 THEN 0                       \* 0 * weight = 0
    ELSE IF elapsed_ms = 0 THEN previous_count         \* weight = 1
    ELSE LuaFloor(LuaMul(previous_count, LuaOneMinus(LuaDiv(elapsed_ms, window_ms))))

(***************************************************************************)
(* Sliding-window store                                                    *)
(***************************************************************************)
NCallers   == 2     \* concurrent clients of the store
MaxCalls   == 5     \* calls started in one run
WindowMs   == 5     \* clock ticks per window
MaxTicks   == 6     \* clock ticks in one run
LongCalls  == 3     \* calls started in one long run
LongTicks  == 11    \* clock ticks in one long run
SmallLimit == 1
BigLimit   == 5

Callers == 1..NCallers
Limits  == {SmallLimit, BigLimit}
Keys    == {"k1"}
\* a run is a burst (many calls, two buckets, either limit) or long (few
\* calls, three buckets, the small limit)
Runs == {[calls |-> MaxCalls, ticks |-> MaxTicks, limit |-> l] : l \in Limits}
            \cup {[calls |-> LongCalls, ticks |-> LongTicks, limit |-> SmallLimit]}
MaxTime == WindowMs + Max(MaxTicks, LongTicks)
Buckets == 0..(MaxTime \div WindowMs)
RedisKeys == Keys \X Buckets
Instants == WindowMs..MaxTime   \* the instants of one run

NoTTL  == -1
Absent == [val |-> 0, exp |-> NoTTL]

\* tonumber(redis.call("GET", key) or "0")
RedisGet(store, key) == store[key].val

\* redis.call("INCR", key): a missing key is created as 1, without a TTL
RedisIncr(store, key) == [store EXCEPT ![key].val = @ + 1]

\* redis.call("PEXPIRE", key, ms)
RedisPExpire(store, key, ms, srvNow) == [store EXCEPT ![key].exp = srvNow + ms]

\* what the keyspace holds at instant t: expired keys are gone
RedisExpire(store, t) ==
    [k \in DOMAIN store |->
        IF store[k].exp # NoTTL /\ store[k].exp <= t THEN Absent ELSE store[k]]

\* LuaWeightedFloor over the arguments the runs reach, computed once
WeightedFloorMemo ==
    {<<p, e, LuaWeightedFloor(p, e, WindowMs)>> : p \in 0..BigLimit, e \in 0..(WindowMs - 1)}

\* math.floor(previous_count * (1 - (elapsed_ms / window_ms))), as Lua computes it
LuaEstimateOfPrevious(previous_count, elapsed_ms, window_ms) ==
    IF window_ms = WindowMs /\ previous_count \in 0..BigLimit /\ elapsed_ms \in 0..(WindowMs - 1)
    THEN (CHOOSE t \in WeightedFloorMemo : t[1] = previous_count /\ t[2] = elapsed_ms)[3]
    ELSE LuaWeightedFloor(previous_count, elapsed_ms, window_ms)

\* the script with "estimated > limit" for "estimated >= limit"
LuaSlidingWindowCheck_OffByOne(store, current_key, previous_key, window_ms, elapsed_ms, limit, srvNow) ==
    LET current_count  == RedisGet(store, current_key)
        previous_count == RedisGet(store, previous_key)
        estimated == LuaEstimateOfPrevious(previous_count, elapsed_ms, window_ms) + current_count
    IN  IF estimated > limit
        THEN [ret |-> <<0, current_count, previous_count>>, store |-> store]
        ELSE LET incr      == RedisIncr(store, current_key)
                 new_count == incr[current_key].val
             IN  [ret   |-> <<1, new_count, previous_count>>,
                  store |-> IF new_count = 1
                            THEN RedisPExpire(incr, current_key, window_ms * 2, srvNow)
                            ELSE incr]

\* the script with the current window's count left out of the estimate
LuaSlidingWindowCheck_PreviousOnly(store, current_key, previous_key, window_ms, elapsed_ms, limit, srvNow) ==
    LET current_count  == RedisGet(store, current_key)
        previous_count == RedisGet(store, previous_key)
        estimated == LuaEstimateOfPrevious(previous_count, elapsed_ms, window_ms)
    IN  IF estimated >= limit
        THEN [ret |-> <<0, current_count, previous_count>>, store |-> store]
        ELSE LET incr      == RedisIncr(store, current_key)
                 new_count == incr[current_key].val
             IN  [ret   |-> <<1, new_count, previous_count>>,
                  store |-> IF new_count = 1
                            THEN RedisPExpire(incr, current_key, window_ms * 2, srvNow)
                            ELSE incr]

\* the script with the counter's TTL set to one window
LuaSlidingWindowCheck_OneWindowTTL(store, current_key, previous_key, window_ms, elapsed_ms, limit, srvNow) ==
    LET current_count  == RedisGet(store, current_key)
        previous_count == RedisGet(store, previous_key)
        estimated == LuaEstimateOfPrevious(previous_count, elapsed_ms, window_ms) + current_count
    IN  IF estimated >= limit
        THEN [ret |-> <<0, current_count, previous_count>>, store |-> store]
        ELSE LET incr      == RedisIncr(store, current_key)
                 new_count == incr[current_key].val
             IN  [ret   |-> <<1, new_count, previous_count>>,
                  store |-> IF new_count = 1
                            THEN RedisPExpire(incr, current_key, window_ms, srvNow)
                            ELSE incr]

\* const luaSlidingWindowCheck
LuaSlidingWindowCheck(store, current_key, previous_key, window_ms, elapsed_ms, limit, srvNow) ==
    LET current_count  == RedisGet(store, current_key)
        previous_count == RedisGet(store, previous_key)
        estimated == LuaEstimateOfPrevious(previous_count, elapsed_ms, window_ms) + current_count
    IN  IF estimated >= limit
        THEN [ret |-> <<0, current_count, previous_count>>, store |-> store]
        ELSE LET incr      == RedisIncr(store, current_key)
                 new_count == incr[current_key].val
             IN  [ret   |-> <<1, new_count, previous_count>>,
                  store |-> IF new_count = 1
                            THEN RedisPExpire(incr, current_key, window_ms * 2, srvNow)
                            ELSE incr]

\* KEYS and ARGV the client passes for a check of key at instant t
SlidingWindowArgs(key, limit, window_ms, t) ==
    [key          |-> key,
     at           |-> t,
     current_key  |-> <<key, t \div window_ms>>,
     previous_key |-> <<key, (t \div window_ms) - 1>>,
     window_ms    |-> window_ms,
     elapsed_ms   |-> t % window_ms,
     limit        |-> limit]

NoArgs == SlidingWindowArgs("k1", 0, WindowMs, 0)

\* a Result whose resetAt is the start of the current bucket
CheckResult_BucketStart(a, ret) ==
    LET E == (ret[3] * (a.window_ms - a.elapsed_ms)) \div a.window_ms + (ret[2] - ret[1])
    IN  [allowed |-> ret[1] = 1, limit |-> a.limit, count |-> ret[2],
         remaining |-> Max(0, a.limit - E - ret[1]),
         resetAt |-> a.current_key[2] * a.window_ms]

\* a Result whose remaining does not count the admitted request itself
CheckResult_NotItself(a, ret) ==
    LET E == (ret[3] * (a.window_ms - a.elapsed_ms)) \div a.window_ms + (ret[2] - ret[1])
    IN  [allowed |-> ret[1] = 1, limit |-> a.limit, count |-> ret[2],
         remaining |-> Max(0, a.limit - E),
         resetAt |-> (a.current_key[2] + 1) * a.window_ms]

\* the Result CheckSlidingWindow builds from the script's reply: with E the
\* estimate before the increment, remaining = max(0, limit - E - (allowed?1:0))
\* and resetAt = (b_cur + 1) * W
CheckResult(a, ret) ==
    LET E == (ret[3] * (a.window_ms - a.elapsed_ms)) \div a.window_ms + (ret[2] - ret[1])
    IN  [allowed |-> ret[1] = 1, limit |-> a.limit, count |-> ret[2],
         remaining |-> Max(0, a.limit - E - ret[1]),
         resetAt |-> (a.current_key[2] + 1) * a.window_ms]

NoResult == [allowed |-> FALSE, limit |-> 0, count |-> 0, remaining |-> 0, resetAt |-> 0]
NoRet  == [ret |-> <<0, 0, 0>>, current_key |-> <<"k1", 0>>, at |-> 0, res |-> NoResult]

\* The keyspace outlives the gateway: the run starts at the first instant of
\* bucket 1, with bucket 0 either never used or filled to the limit by earlier
\* traffic (its counter created at instant 0, so expiring at 2 * WindowMs).
SWInit ==
    /\ now = WindowMs
    /\ swRun \in Runs
    /\ swLimit = swRun.limit
    /\ swFull \in BOOLEAN
    /\ redis = [k \in RedisKeys |->
                  IF swFull /\ k[2] = 0
                  THEN [val |-> swLimit, exp |-> 2 * WindowMs]
                  ELSE Absent]
    /\ swPc = [c \in Callers |-> "idle"]
    /\ swArgs = [c \in Callers |-> NoArgs]
    /\ swRet = [c \in Callers |-> NoRet]
    /\ swCalls = 0
    /\ swAdmits = [t \in Instants |-> 0]

\* the store while another component is examined
SWQuiet ==
    /\ now = WindowMs
    /\ swLimit = SmallLimit
    /\ swFull = FALSE
    /\ redis = [k \in RedisKeys |-> Absent]
    /\ swPc = [c \in Callers |-> "idle"]
    /\ swArgs = [c \in Callers |-> NoArgs]
    /\ swRet = [c \in Callers |-> NoRet]
    /\ swCalls = 0
    /\ swAdmits = [t \in Instants |-> 0]
    /\ swRun = [calls |-> MaxCalls, ticks |-> MaxTicks, limit |-> SmallLimit]

\* CheckSlidingWindow, client side: read the clock, derive the keys
SWBegin(c) ==
    /\ swPc[c] \in {"idle", "done"}
    /\ swCalls < swRun.calls
    /\ \E key \in Keys :
          swArgs' = [swArgs EXCEPT ![c] = SlidingWindowArgs(key, swLimit, WindowMs, now)]
    /\ swPc' = [swPc EXCEPT ![c] = "script"]
    /\ swCalls' = swCalls + 1
    /\ swRet' = [swRet EXCEPT ![c] = NoRet]
    /\ UNCHANGED <<now, redis, swLimit, swFull, swAdmits, swRun>>
    /\ UNCHANGED notSW

\* CheckSlidingWindow, server side: the script runs as one step
SWExec(c) ==
    /\ swPc[c] = "script"
    /\ LET a == swArgs[c]
           r == LuaSlidingWindowCheck(redis, a.current_key, a.previous_key,
                                      a.window_ms, a.elapsed_ms, a.limit, now)
       IN  /\ redis' = r.store
           /\ swRet' = [swRet EXCEPT ![c] = [ret |-> r.ret, current_key |-> a.current_key,
                                             at |-> a.at,
                                             res |-> CheckResult(a, r.ret)]]
           /\ swAdmits' = [swAdmits EXCEPT ![now] = @ + r.ret[1]]
    /\ swPc' = [swPc EXCEPT ![c] = "done"]
    /\ swArgs' = [swArgs EXCEPT ![c] = NoArgs]
    /\ UNCHANGED <<now, swLimit, swFull, swCalls, swRun>>
    /\ UNCHANGED notSW

\* the clock advances; keys past their TTL disappear
SWTick ==
    /\ now < WindowMs + swRun.ticks
    /\ now' = now + 1
    /\ redis' = RedisExpire(redis, now + 1)
    /\ UNCHANGED <<swLimit, swFull, swPc, swArgs, swRet, swCalls, swAdmits, swRun>>
    /\ UNCHANGED notSW

SWNext ==
    \/ \E c \in Callers : SWBegin(c)
    \/ \E c \in Callers : SWExec(c)
    \/ SWTick

(***************************************************************************)
(* Rules engine (internal/rules).  Strings that are split, formatted or    *)
(* trimmed (patterns, paths, names, header values) are sequences of        *)
(* one-character strings.                                                  *)
(***************************************************************************)
IdentifyByIP     == "ip"
IdentifyByHeader == "header"

LowerLetters == {"a", "b", "c", "d", "e", "f", "g", "h", "i", "j", "k", "l", "m",
                 "n", "o", "p", "q", "r", "s", "t", "u", "v", "w", "x", "y", "z"}
UpperLetters == {"A", "B", "C", "D", "E", "F", "G", "H", "I", "J", "K", "L", "M",
                 "N", "O", "P", "Q", "R", "S", "T", "U", "V", "W", "X", "Y", "Z"}
DigitChars   == {"0", "1", "2", "3", "4", "5", "6", "7", "8", "9"}

\* strings.ToUpper, on the method names the runs use
ToUpper(s) ==
    CASE s = "get"  -> "GET"
      [] s = "post" -> "POST"
      [] OTHER      -> s

\* strings.TrimSpace
TrimSpace(s) ==
    LET idx == {i \in 1..Len(s) : s[i] # " "}
    IN  IF idx = {} THEN <<>>
        ELSE SubSeq(s, CHOOSE i \in idx : \A j \in idx : i <= j,
                       CHOOSE i \in idx : \A j \in idx : i >= j)

\* strings.Split(s, sep) for a one-character separator
RECURSIVE Split(_, _)
Split(s, sep) ==
    LET idx == {i \in 1..Len(s) : s[i] = sep}
    IN  IF idx = {} THEN <<s>>
        ELSE LET k == CHOOSE i \in idx : \A j \in idx : i <= j
             IN  <<SubSeq(s, 1, k - 1)>> \o Split(SubSeq(s, k + 1, Len(s)), sep)

\* isValidIdentifier
IsValidIdentifier(s) ==
    /\ Len(s) > 0
    /\ s[1] \in LowerLetters \cup UpperLetters \cup {"_"}
    /\ \A i \in 2..Len(s) : s[i] \in LowerLetters \cup UpperLetters \cup DigitChars \cup {"_"}

NoRegex == [toks |-> <<>>, anchored |-> FALSE]

\* patternToRegex, for a non-empty pattern.  The regex "^/t1/t2...[$]" is
\* kept as its tokens: a quoted literal, "([^/]+)" or "(.*)", and whether
\* the "$" was written; paramNames names the groups in order
PatternToRegex(pattern) ==
    IF pattern[1] # "/"
    THEN [err |-> "pattern must start with /", regex |-> NoRegex, paramNames |-> <<>>]
    ELSE LET segments == Split(pattern, "/")
             n == Len(segments)
             SegErr(i) ==
                 LET seg == segments[i]
                 IN  IF seg = <<"*">>
                     THEN IF i # n THEN "wildcard (*) must be the last segment" ELSE ""
                     ELSE IF Len(seg) > 0 /\ seg[1] = ":"
                     THEN IF Len(seg) = 1 THEN "empty parameter name in pattern"
                          ELSE IF ~IsValidIdentifier(Tail(seg)) THEN "invalid parameter name"
                          ELSE ""
                     ELSE ""
             Tok(i) ==
                 LET seg == segments[i]
                 IN  IF seg = <<"*">> THEN [kind |-> "wild", text |-> <<>>]
                     ELSE IF Len(seg) > 0 /\ seg[1] = ":" THEN [kind |-> "param", text |-> <<>>]
                     ELSE [kind |-> "lit", text |-> seg]
             groups == SelectSeq(Tail(segments),
                                 LAMBDA seg : seg = <<"*">> \/ (Len(seg) > 0 /\ seg[1] = ":"))
             names == [j \in 1..Len(groups) |->
                          IF groups[j] = <<"*">> THEN groups[j] ELSE Tail(groups[j])]
             bad == {i \in 2..n : SegErr(i) # ""}
         IN  IF bad # {}
             THEN [err |-> SegErr(CHOOSE i \in bad : \A j \in bad : i <= j), regex |-> NoRegex,
                   paramNames |-> <<>>]
             ELSE [err |-> "",
                   regex |-> [toks |-> [i \in 1..(n - 1) |-> Tok(i + 1)],
                              anchored |-> pattern[Len(pattern)] # "*"],
                   paramNames |-> names]

\* regex.FindStringSubmatch(path) # nil, for a regex patternToRegex wrote:
\* every token but the last must fill one path segment that a "/" follows;
\* the last one, with "$", fills the last segment, and without "$" is a
\* "(.*)" or a literal that only has to begin the rest of the path
RegexMatches(regex, path) ==
    /\ Len(path) > 0
    /\ path[1] = "/"
    /\ LET psegs == Tail(Split(path, "/"))
           m == Len(regex.toks)
           TokOK(i) ==
               LET t == regex.toks[i]
               IN  CASE t.kind = "lit"   -> psegs[i] = t.text
                     [] t.kind = "param" -> psegs[i] # <<>>
                     [] OTHER            -> TRUE
           last == regex.toks[m]
       IN  /\ Len(psegs) >= m
           /\ \A i \in 1..(m - 1) : TokOK(i)
           /\ IF regex.anchored
              THEN Len(psegs) = m /\ TokOK(m)
              ELSE \/ last.kind = "wild"
                   \/ /\ last.kind = "lit"
                      /\ Len(psegs[m]) >= Len(last.text)
                      /\ SubSeq(psegs[m], 1, Len(last.text)) = last.text

\* strings.Join(segs, sep)
RECURSIVE Join(_, _)
Join(segs, sep) ==
    IF Len(segs) = 0 THEN <<>>
    ELSE IF Len(segs) = 1 THEN segs[1]
    ELSE segs[1] \o <<sep>> \o Join(Tail(segs), sep)

\* what a greedy ".*" takes of s: "." matches every character but "\n"
DotStar(s) ==
    LET stops == {i \in 1..Len(s) : s[i] = "\n"}
    IN  IF stops = {} THEN s
        ELSE SubSeq(s, 1, (CHOOSE i \in stops : \A j \in stops : i <= j) - 1)

\* regex.FindStringSubmatch(path)[1:], for a path the regex matches: what
\* each "([^/]+)" and the "(.*)" captured, in order
Submatches(regex, path) ==
    LET psegs == Tail(Split(path, "/"))
        m == Len(regex.toks)
        groups == SelectSeq([i \in 1..m |-> i], LAMBDA i : regex.toks[i].kind # "lit")
    IN  [j \in 1..Len(groups) |->
            IF regex.toks[groups[j]].kind = "param"
            THEN psegs[groups[j]]
            ELSE DotStar(Join(SubSeq(psegs, groups[j], Len(psegs)), "/"))]

\* the params map Match fills from paramNames and the submatches: nil (here
\* the empty function) without names, a repeated name keeps its last value
Params(paramNames, matches) ==
    [name \in {paramNames[i] : i \in 1..Len(paramNames)} |->
        LET is == {i \in 1..Len(paramNames) : paramNames[i] = name /\ i <= Len(matches)}
        IN  matches[CHOOSE i \in is : \A j \in is : i >= j]]

NoRule == [name |-> <<>>, pattern |-> <<>>, methods |-> {}, priority |-> 0, limit |-> 0,
           window |-> 0, identifyBy |-> "", headerName |-> ""]
NoCompiled == [rule |-> NoRule, regex |-> NoRegex, paramNames |-> <<>>, methods |-> {}]

\* compile: an error, or the rule with its regex and its upper-cased method
\* set (empty: all methods)
Compile(r) ==
    IF r.pattern = <<>>
    THEN [err |-> "pattern is required", cr |-> NoCompiled]
    ELSE IF r.identifyBy = IdentifyByHeader /\ r.headerName = ""
    THEN [err |-> "HeaderName is required", cr |-> NoCompiled]
    ELSE LET p == PatternToRegex(r.pattern)
         IN  IF p.err # "" THEN [err |-> p.err, cr |-> NoCompiled]
             ELSE [err |-> "",
                   cr |-> [rule |-> r, regex |-> p.regex, paramNames |-> p.paramNames,
                           methods |-> {ToUpper(m) : m \in r.methods}]]

\* sort.SliceStable by priority, descending
RECURSIVE SortStable(_)
SortStable(crs) ==
    IF Len(crs) <= 1 THEN crs
    ELSE LET n    == Len(crs)
             init == SortStable(SubSeq(crs, 1, n - 1))
             x    == crs[n]
             k    == Cardinality({i \in 1..(n - 1) : init[i].rule.priority >= x.rule.priority})
         IN  SubSeq(init, 1, k) \o <<x>> \o SubSeq(init, k + 1, n - 1)

NoError == [set |-> FALSE, rule |-> <<>>, cause |-> ""]

\* a New that leaves out the rules that do not compile
New_SkipInvalid(rules) ==
    LET cs   == [i \in 1..Len(rules) |-> Compile(rules[i])]
        good == SelectSeq(cs, LAMBDA c : c.err = "")
    IN  [nil |-> FALSE, err |-> NoError,
         compiled |-> SortStable([i \in 1..Len(good) |-> good[i].cr])]

\* rules.New: a matcher (nil on error) and an error naming the first rule
\* that does not compile
New(rules) ==
    LET cs  == [i \in 1..Len(rules) |-> Compile(rules[i])]
        bad == {i \in 1..Len(rules) : cs[i].err # ""}
    IN  IF Len(rules) = 0 THEN [nil |-> FALSE, err |-> NoError, compiled |-> <<>>]
        ELSE IF bad # {}
        THEN LET i == CHOOSE i \in bad : \A j \in bad : i <= j
             IN  [nil |-> TRUE, compiled |-> <<>>,
                  err |-> [set |-> TRUE, rule |-> rules[i].name, cause |-> cs[i].err]]
        ELSE [nil |-> FALSE, err |-> NoError,
              compiled |-> SortStable([i \in 1..Len(rules) |-> cs[i].cr])]

NoMatch == [found |-> FALSE, rule |-> NoRule, params |-> <<>>]

\* a Match that returns the last compiled rule that accepts
Match_LastHit(compiled, method, path) ==
    LET upperMethod == ToUpper(method)
        hits == {i \in 1..Len(compiled) :
                    /\ compiled[i].methods = {} \/ upperMethod \in compiled[i].methods
                    /\ RegexMatches(compiled[i].regex, path)}
    IN  IF hits = {} THEN NoMatch
        ELSE LET cr == compiled[CHOOSE i \in hits : \A j \in hits : i >= j]
             IN  [found |-> TRUE, rule |-> cr.rule,
                  params |-> Params(cr.paramNames, Submatches(cr.regex, path))]

\* Matcher.Match: the first compiled rule whose methods and regex accept,
\* with the params its groups captured
Match(compiled, method, path) ==
    LET upperMethod == ToUpper(method)
        hits == {i \in 1..Len(compiled) :
                    /\ compiled[i].methods = {} \/ upperMethod \in compiled[i].methods
                    /\ RegexMatches(compiled[i].regex, path)}
    IN  IF hits = {} THEN NoMatch
        ELSE LET cr == compiled[CHOOSE i \in hits : \A j \in hits : i <= j]
             IN  [found |-> TRUE, rule |-> cr.rule,
                  params |-> Params(cr.paramNames, Submatches(cr.regex, path))]

(***************************************************************************)
(* Gateway                                                                 *)
(***************************************************************************)
NReqs       == 2     \* requests served in one run
MaxSwaps    == 1     \* SetMatcher calls in one run
GlobalLimit == 3     \* the global limiter's limit

Reqs == 1..NReqs

\* rule sets the operator installs
RulesS1 == <<[name |-> <<"a">>, pattern |-> <<"/", "a">>, methods |-> {}, priority |-> 1,
              limit |-> 1, window |-> 1, identifyBy |-> IdentifyByIP, headerName |-> ""]>>
RulesS2 == <<[name |-> <<"a">>, pattern |-> <<"/", "a">>, methods |-> {}, priority |-> 1,
              limit |-> 2, window |-> 2, identifyBy |-> IdentifyByIP, headerName |-> ""],
             [name |-> <<"b">>, pattern |-> <<"/", "*">>, methods |-> {"get"}, priority |-> 2,
              limit |-> 2, window |-> 1, identifyBy |-> IdentifyByHeader, headerName |-> "X-Key"]>>

\* what a *rules.Matcher reference points to; "nil" points to nothing
MatcherRefs == {"nil", "M0", "M1", "M2"}
NoRef == "none"
\* the compiled rules rules.New builds for each installed set
CompiledS0 == New(<<>>).compiled
CompiledS1 == New(RulesS1).compiled
CompiledS2 == New(RulesS2).compiled
MatcherOf(ref) ==
    CASE ref = "M1" -> CompiledS1
      [] ref = "M2" -> CompiledS2
      [] OTHER      -> CompiledS0

Requests ==
    {[method |-> "get",  path |-> <<"/", "a">>, clientID |-> <<"c">>, header |-> <<" ", "u">>],
     [method |-> "get",  path |-> <<"/", "b">>, clientID |-> <<"c">>, header |-> <<" ">>],
     [method |-> "POST", path |-> <<"/", "a">>, clientID |-> <<"c">>, header |-> <<" ">>],
     [method |-> "POST", path |-> <<"/", "b">>, clientID |-> <<"c">>, header |-> <<" ", "u">>]}
NoReq == [method |-> "", path |-> <<>>, clientID |-> <<>>, header |-> <<>>]

ZeroResult == [allowed |-> FALSE, limit |-> 0, remaining |-> 0]
NoOut == [called |-> FALSE, err |-> FALSE, res |-> ZeroResult]

\* what CheckSlidingWindow or Allow may return for a limit: a decision, or an
\* error with whatever Result came with it
Outcomes(limit) ==
    {[called |-> TRUE, err |-> FALSE, res |-> [allowed |-> TRUE,  limit |-> limit, remaining |-> 1]],
     [called |-> TRUE, err |-> FALSE, res |-> [allowed |-> FALSE, limit |-> limit, remaining |-> 0]],
     [called |-> TRUE, err |-> FALSE, res |-> [allowed |-> FALSE, limit |-> limit, remaining |-> 1]],
     [called |-> TRUE, err |-> TRUE,  res |-> ZeroResult],
     [called |-> TRUE, err |-> TRUE,  res |-> [allowed |-> FALSE, limit |-> limit, remaining |-> 1]]}

\* the upstream exchange: a response of the backend, or a transport failure
UpstreamResults == {[ok |-> TRUE, status |-> 200], [ok |-> FALSE, status |-> 0]}

Event(req, allowed, limit, remaining, status) ==
    [clientID |-> req.clientID, method |-> req.method, path |-> req.path,
     allowed |-> allowed, limit |-> limit, remaining |-> remaining, status |-> status]

NoHdr == [set |-> FALSE, limit |-> <<>>, remaining |-> <<>>, rule |-> <<>>]
NoCall == [via |-> "none", key |-> <<>>, limit |-> 0, window |-> 0]
NoResp == [from |-> "none", status |-> 0]

\* fmt.Sprintf("rule:%s:%s", rule.Name, ruleClientID)
RuleKey(name, id) == <<"r", "u", "l", "e", ":">> \o name \o <<":">> \o id

\* a rule identity that ignores the rule's header
RuleClientID_ClientOnly(rule, req) == req.clientID

\* the identity a rule limits by: the trimmed header value when the rule
\* identifies by header and the value is not empty, else the client identity
RuleClientID(rule, req) ==
    IF rule.identifyBy = IdentifyByHeader /\ rule.headerName # ""
    THEN LET headerVal == TrimSpace(req.header)
         IN  IF headerVal # <<>> THEN headerVal ELSE req.clientID
    ELSE req.clientID

\* a rule path that asks the global limiter for the client
RuleCheckArgs_ViaLimiter(rule, req) ==
    [via |-> "limiter", key |-> req.clientID, limit |-> 0, window |-> 0]

\* the arguments of gp.store.CheckSlidingWindow
RuleCheckArgs(rule, req) ==
    [via |-> "store", key |-> RuleKey(rule.name, RuleClientID(rule, req)),
     limit |-> rule.limit, window |-> rule.window]

\* the arguments of gp.limiter.Allow
GlobalCheckArgs(req) ==
    [via |-> "limiter", key |-> req.clientID, limit |-> 0, window |-> 0]

\* strconv.FormatInt(n, 10)
DecimalDigit(d) == <<"0", "1", "2", "3", "4", "5", "6", "7", "8", "9">>[d + 1]
RECURSIVE FormatInt(_)
FormatInt(n) ==
    IF n < 0 THEN <<"-">> \o FormatInt(-n)
    ELSE IF n < 10 THEN <<DecimalDigit(n)>>
    ELSE FormatInt(n \div 10) \o <<DecimalDigit(n % 10)>>

\* headers that repeat the limit as the remaining
RateHdr_LimitTwice(res, name) ==
    [set |-> TRUE, limit |-> FormatInt(res.limit), remaining |-> FormatInt(res.limit),
     rule |-> name]

\* w.Header().Set of X-RateLimit-Limit, -Remaining and, for a rule, -Rule
RateHdr(res, name) ==
    [set |-> TRUE, limit |-> FormatInt(res.limit), remaining |-> FormatInt(res.remaining),
     rule |-> name]

\* the rule path with the limiter error answered by a 500
RuleDecision_FailClosed(rule, req, out) ==
    IF out.err
    THEN [events |-> <<Event(req, FALSE, 0, 0, 500)>>, hdr |-> NoHdr, status |-> 500, forward |-> FALSE]
    ELSE IF ~out.res.allowed
    THEN [events  |-> <<Event(req, FALSE, out.res.limit, out.res.remaining, 429)>>,
          hdr     |-> RateHdr(out.res, rule.name), status |-> 429, forward |-> FALSE]
    ELSE [events  |-> <<Event(req, TRUE, out.res.limit, out.res.remaining, 200)>>,
          hdr     |-> RateHdr(out.res, rule.name), status |-> 0, forward |-> TRUE]

\* the rule path that lets the request through on a store error without
\* publishing its Event
RuleDecision_SilentFailOpen(rule, req, out) ==
    IF out.err
    THEN [events |-> <<>>, hdr |-> NoHdr, status |-> 0, forward |-> TRUE]
    ELSE IF ~out.res.allowed
    THEN [events  |-> <<Event(req, FALSE, out.res.limit, out.res.remaining, 429)>>,
          hdr     |-> RateHdr(out.res, rule.name), status |-> 429, forward |-> FALSE]
    ELSE [events  |-> <<Event(req, TRUE, out.res.limit, out.res.remaining, 200)>>,
          hdr     |-> RateHdr(out.res, rule.name), status |-> 0, forward |-> TRUE]

\* ServeHTTP once a rule matched and CheckSlidingWindow returned out: the
\* Events published, the headers set, the status written (0: none), and
\* whether the request goes to the upstream
RuleDecision(rule, req, out) ==
    IF out.err
    THEN [events |-> <<Event(req, TRUE, 0, 0, 200)>>, hdr |-> NoHdr, status |-> 0, forward |-> TRUE]
    ELSE IF ~out.res.allowed
    THEN [events  |-> <<Event(req, FALSE, out.res.limit, out.res.remaining, 429)>>,
          hdr     |-> RateHdr(out.res, rule.name), status |-> 429, forward |-> FALSE]
    ELSE [events  |-> <<Event(req, TRUE, out.res.limit, out.res.remaining, 200)>>,
          hdr     |-> RateHdr(out.res, rule.name), status |-> 0, forward |-> TRUE]

\* the global path with a refused request published and then forwarded
GlobalDecision_ForwardDenied(hasLimiter, req, out) ==
    IF ~hasLimiter
    THEN [events |-> <<Event(req, TRUE, 0, 0, 200)>>, hdr |-> NoHdr, status |-> 0, forward |-> TRUE]
    ELSE IF out.err
    THEN [events |-> <<Event(req, TRUE, 0, 0, 200)>>, hdr |-> NoHdr, status |-> 0, forward |-> TRUE]
    ELSE IF ~out.res.allowed
    THEN [events  |-> <<Event(req, FALSE, out.res.limit, out.res.remaining, 429)>>,
          hdr     |-> RateHdr(out.res, <<>>), status |-> 0, forward |-> TRUE]
    ELSE [events  |-> <<Event(req, TRUE, out.res.limit, out.res.remaining, 200)>>,
          hdr     |-> RateHdr(out.res, <<>>), status |-> 0, forward |-> TRUE]

\* ServeHTTP when no rule applies: the global limiter, if there is one
GlobalDecision(hasLimiter, req, out) ==
    IF ~hasLimiter
    THEN [events |-> <<Event(req, TRUE, 0, 0, 200)>>, hdr |-> NoHdr, status |-> 0, forward |-> TRUE]
    ELSE IF out.err
    THEN [events |-> <<Event(req, TRUE, 0, 0, 200)>>, hdr |-> NoHdr, status |-> 0, forward |-> TRUE]
    ELSE IF ~out.res.allowed
    THEN [events  |-> <<Event(req, FALSE, out.res.limit, out.res.remaining, 429)>>,
          hdr     |-> RateHdr(out.res, <<>>), status |-> 429, forward |-> FALSE]
    ELSE [events  |-> <<Event(req, TRUE, out.res.limit, out.res.remaining, 200)>>,
          hdr     |-> RateHdr(out.res, <<>>), status |-> 0, forward |-> TRUE]

\* an ErrorHandler that answers a transport failure as a rate-limit rejection
Response_RateLimited(d, up) ==
    IF ~d.forward THEN [from |-> "gateway", status |-> d.status]
    ELSE IF up.ok THEN [from |-> "upstream", status |-> up.status]
    ELSE [from |-> "gateway", status |-> 429]

\* who answers the client: the gateway's own status, or the upstream exchange
\* (ErrorHandler turns a transport failure into a 502)
Response(d, up) ==
    IF ~d.forward THEN [from |-> "gateway", status |-> d.status]
    ELSE IF up.ok THEN [from |-> "upstream", status |-> up.status]
    ELSE [from |-> "gateway", status |-> 502]

\* a SetMatcher that leaves the field as it was
StoreMatcher_Kept(old, m) == old

\* gp.matcher = m
StoreMatcher(old, m) == m

\* the option sets New is called with: WithRulesMatcher, WithStore, the
\* limiter argument, WithEventSink
GatewayConfigs ==
    {[matcher |-> "M1",  store |-> TRUE,  limiter |-> TRUE,  sink |-> TRUE],
     [matcher |-> "M1",  store |-> TRUE,  limiter |-> FALSE, sink |-> FALSE],
     [matcher |-> "M1",  store |-> FALSE, limiter |-> TRUE,  sink |-> TRUE],
     [matcher |-> "nil", store |-> TRUE,  limiter |-> TRUE,  sink |-> FALSE]}

\* the gateway as New leaves it: options applied, no request yet
GWInit ==
    /\ \E cfg \in GatewayConfigs :
          /\ gpMatcher = cfg.matcher
          /\ gpStore = cfg.store
          /\ gpLimiter = cfg.limiter
          /\ gpEventSink = cfg.sink
    /\ gpInstalled = gpMatcher
    /\ gpSwaps = 0
    /\ rqPc = [r \in Reqs |-> "idle"]
    /\ rqReq = [r \in Reqs |-> NoReq]
    /\ rqTested = [r \in Reqs |-> NoRef]
    /\ rqUsed = [r \in Reqs |-> NoRef]
    /\ rqSeen = [r \in Reqs |-> {}]
    /\ rqRule = [r \in Reqs |-> NoRule]
    /\ rqCall = [r \in Reqs |-> NoCall]
    /\ rqOut = [r \in Reqs |-> NoOut]
    /\ rqEvents = [r \in Reqs |-> <<>>]
    /\ rqSunk = [r \in Reqs |-> 0]
    /\ rqHdr = [r \in Reqs |-> NoHdr]
    /\ rqFwd = [r \in Reqs |-> FALSE]
    /\ rqResp = [r \in Reqs |-> NoResp]
    /\ rqBody = [r \in Reqs |-> ""]

\* the gateway while another component is examined
GWQuiet ==
    /\ gpMatcher = "nil" /\ gpInstalled = "nil" /\ gpSwaps = 0
    /\ gpStore = FALSE /\ gpLimiter = FALSE /\ gpEventSink = FALSE
    /\ rqPc = [r \in Reqs |-> "idle"]
    /\ rqReq = [r \in Reqs |-> NoReq]
    /\ rqTested = [r \in Reqs |-> NoRef]
    /\ rqUsed = [r \in Reqs |-> NoRef]
    /\ rqSeen = [r \in Reqs |-> {}]
    /\ rqRule = [r \in Reqs |-> NoRule]
    /\ rqCall = [r \in Reqs |-> NoCall]
    /\ rqOut = [r \in Reqs |-> NoOut]
    /\ rqEvents = [r \in Reqs |-> <<>>]
    /\ rqSunk = [r \in Reqs |-> 0]
    /\ rqHdr = [r \in Reqs |-> NoHdr]
    /\ rqFwd = [r \in Reqs |-> FALSE]
    /\ rqResp = [r \in Reqs |-> NoResp]
    /\ rqBody = [r \in Reqs |-> ""]

\* ServeHTTP, lines 119-124: the client identity is derived and gp.matcher
\* is read and compared with nil
ServeHTTPBegin(r) ==
    /\ rqPc[r] = "idle"
    /\ \E req \in Requests : rqReq' = [rqReq EXCEPT ![r] = req]
    /\ rqTested' = [rqTested EXCEPT ![r] = gpMatcher]
    /\ rqSeen' = [rqSeen EXCEPT ![r] = {gpInstalled}]
    /\ rqPc' = [rqPc EXCEPT ![r] = IF gpMatcher # "nil" /\ gpStore THEN "match" ELSE "global"]
    /\ UNCHANGED <<gpMatcher, gpInstalled, gpSwaps, gpStore, gpLimiter, gpEventSink,
                   rqUsed, rqRule, rqCall, rqOut, rqEvents, rqSunk, rqHdr, rqFwd, rqResp,
                   rqBody>>
    /\ UNCHANGED notGW

\* ServeHTTP, lines 125-127: gp.matcher is read a second time, without
\* synchronisation, to call Match.  The build may load the field again or
\* reuse the value it compared; Match on nil panics at m.compiled.
ServeHTTPMatch(r) ==
    /\ rqPc[r] = "match"
    /\ \E m \in {rqTested[r], gpMatcher} :
          /\ rqUsed' = [rqUsed EXCEPT ![r] = m]
          /\ IF m = "nil"
             THEN /\ rqPc' = [rqPc EXCEPT ![r] = "panic"]
                  /\ UNCHANGED rqRule
             ELSE LET match == Match(MatcherOf(m), rqReq[r].method, rqReq[r].path)
                  IN  IF match.found
                      THEN /\ rqRule' = [rqRule EXCEPT ![r] = match.rule]
                           /\ rqPc' = [rqPc EXCEPT ![r] = "rule"]
                      ELSE /\ rqPc' = [rqPc EXCEPT ![r] = "global"]
                           /\ UNCHANGED rqRule
    /\ UNCHANGED <<gpMatcher, gpInstalled, gpSwaps, gpStore, gpLimiter, gpEventSink,
                   rqReq, rqTested, rqSeen, rqCall, rqOut, rqEvents, rqSunk, rqHdr,
                   rqFwd, rqResp, rqBody>>
    /\ UNCHANGED notGW

\* the "error" member of the JSON body gatifyhttp.WriteJSON is given with the
\* statuses the gateway writes itself
ErrorBody(status) ==
    CASE status = 429 -> "rate limit exceeded"
      [] status = 502 -> "bad gateway"
      [] OTHER        -> ""

NoUpstream == [ok |-> FALSE, status |-> 0]

\* ServeHTTP once the decision d is taken: publishEvent (a no-op without a
\* sink) and the response headers, then the 429 written by the gateway, or
\* the request is about to be handed to gp.proxy
Finish(r, d) ==
    /\ rqEvents' = [rqEvents EXCEPT ![r] = d.events]
    /\ rqSunk' = [rqSunk EXCEPT ![r] = IF gpEventSink THEN Len(d.events) ELSE 0]
    /\ rqHdr' = [rqHdr EXCEPT ![r] = d.hdr]
    /\ IF d.forward
       THEN /\ rqPc' = [rqPc EXCEPT ![r] = "upstream"]
            /\ UNCHANGED <<rqFwd, rqResp, rqBody>>
       ELSE /\ rqResp' = [rqResp EXCEPT ![r] = Response(d, NoUpstream)]
            /\ rqBody' = [rqBody EXCEPT ![r] = ErrorBody(d.status)]
            /\ rqPc' = [rqPc EXCEPT ![r] = "done"]
            /\ UNCHANGED rqFwd

\* ServeHTTP, lines 128-197: the per-rule check and what follows it
ServeHTTPRule(r) ==
    /\ rqPc[r] = "rule"
    /\ rqCall' = [rqCall EXCEPT ![r] = RuleCheckArgs(rqRule[r], rqReq[r])]
    /\ \E out \in Outcomes(rqRule[r].limit) :
          /\ rqOut' = [rqOut EXCEPT ![r] = out]
          /\ Finish(r, RuleDecision(rqRule[r], rqReq[r], out))
    /\ UNCHANGED <<gpMatcher, gpInstalled, gpSwaps, gpStore, gpLimiter, gpEventSink,
                   rqReq, rqTested, rqUsed, rqSeen, rqRule>>
    /\ UNCHANGED notGW

\* ServeHTTP, lines 200-257: the global limiter, if any, and what follows it
ServeHTTPGlobal(r) ==
    /\ rqPc[r] = "global"
    /\ rqCall' = [rqCall EXCEPT ![r] = IF gpLimiter THEN GlobalCheckArgs(rqReq[r]) ELSE NoCall]
    /\ \E out \in (IF gpLimiter THEN Outcomes(GlobalLimit) ELSE {NoOut}) :
          /\ rqOut' = [rqOut EXCEPT ![r] = out]
          /\ Finish(r, GlobalDecision(gpLimiter, rqReq[r], out))
    /\ UNCHANGED <<gpMatcher, gpInstalled, gpSwaps, gpStore, gpLimiter, gpEventSink,
                   rqReq, rqTested, rqUsed, rqSeen, rqRule>>
    /\ UNCHANGED notGW

\* gp.proxy.ServeHTTP(w, r), lines 152, 195, 216 and 257: the upstream
\* exchange; the backend's response is relayed, or the ErrorHandler New
\* installed (lines 100-105) answers a transport failure
ServeHTTPUpstream(r) ==
    /\ rqPc[r] = "upstream"
    /\ rqFwd' = [rqFwd EXCEPT ![r] = TRUE]
    /\ \E up \in UpstreamResults :
          LET resp == Response([forward |-> TRUE, status |-> 0], up)
          IN  /\ rqResp' = [rqResp EXCEPT ![r] = resp]
              /\ rqBody' = [rqBody EXCEPT ![r] =
                                IF resp.from = "gateway" THEN ErrorBody(resp.status) ELSE ""]
    /\ rqPc' = [rqPc EXCEPT ![r] = "done"]
    /\ UNCHANGED <<gpMatcher, gpInstalled, gpSwaps, gpStore, gpLimiter, gpEventSink,
                   rqReq, rqTested, rqUsed, rqSeen, rqRule, rqCall, rqOut, rqEvents,
                   rqSunk, rqHdr>>
    /\ UNCHANGED notGW

\* SetMatcher: a plain store to the field, concurrent with the requests
SetMatcher(m) ==
    /\ gpSwaps < MaxSwaps
    /\ gpMatcher' = StoreMatcher(gpMatcher, m)
    /\ gpInstalled' = m
    /\ gpSwaps' = gpSwaps + 1
    /\ rqSeen' = [r \in Reqs |-> IF rqPc[r] = "match" THEN rqSeen[r] \cup {m} ELSE rqSeen[r]]
    /\ UNCHANGED <<gpStore, gpLimiter, gpEventSink, rqPc, rqReq, rqTested, rqUsed, rqRule,
                   rqCall, rqOut, rqEvents, rqSunk, rqHdr, rqFwd, rqResp, rqBody>>
    /\ UNCHANGED notGW

GWNext ==
    \/ \E r \in Reqs : ServeHTTPBegin(r)
    \/ \E r \in Reqs : ServeHTTPMatch(r)
    \/ \E r \in Reqs : ServeHTTPRule(r)
    \/ \E r \in Reqs : ServeHTTPGlobal(r)
    \/ \E r \in Reqs : ServeHTTPUpstream(r)
    \/ \E m \in MatcherRefs : SetMatcher(m)

(***************************************************************************)
(* Live event broker (StatsStreamBroker).  b.mu is a read-write lock:      *)
(* Publish holds it shared from PublishBegin to PublishEnd, Subscribe and  *)
(* the unsubscribe function hold it exclusively for their whole body.      *)
(* A Publish call's event is named by the call's number.                   *)
(***************************************************************************)
NPublishers == 2     \* goroutines calling Publish
MaxPubs     == 3     \* Publish calls in one run
MaxSubs     == 2     \* Subscribe calls in one run
BufArg      == 1     \* the positive bufferSize given to NewStatsStreamBroker
MaxCancels  == 2     \* calls of one unsubscribe function in one run

DefaultBufferSize == 64

Publishers == 1..NPublishers
SubIDs     == 0..(MaxSubs - 1)
PubEvents  == 1..MaxPubs

Range(s) == {s[i] : i \in 1..Len(s)}

NoChan  == [buf |-> <<>>, closed |-> FALSE]
IdlePub == [pc |-> "idle", ev |-> 0, todo |-> {}]

\* NewStatsStreamBroker: a non-positive size becomes the default
NewStatsStreamBroker(bufferSize) ==
    IF bufferSize <= 0 THEN DefaultBufferSize ELSE bufferSize

\* a send that makes room by discarding the oldest buffered event
SelectSend_DropOldest(ch, event, cap) ==
    IF ch.closed THEN [ch |-> ch, panic |-> TRUE]
    ELSE IF Len(ch.buf) < cap
    THEN [ch |-> [ch EXCEPT !.buf = Append(@, event)], panic |-> FALSE]
    ELSE [ch |-> [ch EXCEPT !.buf = Append(Tail(@), event)], panic |-> FALSE]

\* a send that puts the event at the head of the buffer
SelectSend_AtHead(ch, event, cap) ==
    IF ch.closed THEN [ch |-> ch, panic |-> TRUE]
    ELSE IF Len(ch.buf) < cap
    THEN [ch |-> [ch EXCEPT !.buf = <<event>> \o @], panic |-> FALSE]
    ELSE [ch |-> ch, panic |-> FALSE]

\* select { case ch <- event: default: } on a channel of capacity cap:
\* enqueue if there is room, else drop; a send on a closed channel panics
SelectSend(ch, event, cap) ==
    IF ch.closed THEN [ch |-> ch, panic |-> TRUE]
    ELSE IF Len(ch.buf) < cap
    THEN [ch |-> [ch EXCEPT !.buf = Append(@, event)], panic |-> FALSE]
    ELSE [ch |-> ch, panic |-> FALSE]

\* an unsubscribe that removes the subscriber and leaves its channel open
Unsubscribe_NoClose(subs, chans, id) ==
    IF id \in subs
    THEN [subs |-> subs \ {id}, chans |-> chans, closes |-> 0]
    ELSE [subs |-> subs, chans |-> chans, closes |-> 0]

\* an unsubscribe that deletes and closes without looking the id up
Unsubscribe_Unguarded(subs, chans, id) ==
    [subs |-> subs \ {id}, chans |-> [chans EXCEPT ![id].closed = TRUE], closes |-> 1]

\* the unsubscribe closure: if id is still registered, delete it and close
\* its channel; closes counts the close(existing) it executed
Unsubscribe(subs, chans, id) ==
    IF id \in subs
    THEN [subs |-> subs \ {id}, chans |-> [chans EXCEPT ![id].closed = TRUE], closes |-> 1]
    ELSE [subs |-> subs, chans |-> chans, closes |-> 0]

\* no Publish holds the lock shared
NoReader == \A p \in Publishers : brPub[p].pc # "send"

BRInit ==
    /\ \E n \in {0, BufArg} : brBufferSize = NewStatsStreamBroker(n)
    /\ brSubs = {}
    /\ brNextID = 0
    /\ brChan = [id \in SubIDs |-> NoChan]
    /\ brPub = [p \in Publishers |-> IdlePub]
    /\ brSeq = 0
    /\ brEnded = {}
    /\ brBefore = [e \in PubEvents |-> {}]
    /\ brLive = [id \in SubIDs |-> {}]
    /\ brRecv = [id \in SubIDs |-> <<>>]
    /\ brEos = [id \in SubIDs |-> FALSE]
    /\ brCancelled = [id \in SubIDs |-> FALSE]
    /\ brCancelCalls = [id \in SubIDs |-> 0]
    /\ brCloses = [id \in SubIDs |-> 0]

\* the broker while another component is examined
BRQuiet ==
    /\ brBufferSize = NewStatsStreamBroker(0)
    /\ brSubs = {}
    /\ brNextID = 0
    /\ brChan = [id \in SubIDs |-> NoChan]
    /\ brPub = [p \in Publishers |-> IdlePub]
    /\ brSeq = 0
    /\ brEnded = {}
    /\ brBefore = [e \in PubEvents |-> {}]
    /\ brLive = [id \in SubIDs |-> {}]
    /\ brRecv = [id \in SubIDs |-> <<>>]
    /\ brEos = [id \in SubIDs |-> FALSE]
    /\ brCancelled = [id \in SubIDs |-> FALSE]
    /\ brCancelCalls = [id \in SubIDs |-> 0]
    /\ brCloses = [id \in SubIDs |-> 0]

\* Publish, b.mu.RLock(): the call starts ranging over b.subscribers
PublishBegin(p) ==
    /\ brPub[p].pc = "idle"
    /\ brSeq < MaxPubs
    /\ brSeq' = brSeq + 1
    /\ brPub' = [brPub EXCEPT ![p] = [pc |-> "send", ev |-> brSeq + 1, todo |-> brSubs]]
    /\ brBefore' = [brBefore EXCEPT ![brSeq + 1] = brEnded]
    /\ brLive' = [id \in SubIDs |-> IF id \in brSubs THEN brLive[id] \cup {brSeq + 1}
                                    ELSE brLive[id]]
    /\ UNCHANGED <<brBufferSize, brSubs, brNextID, brChan, brEnded, brRecv, brEos, brCancelled,
                   brCancelCalls, brCloses>>
    /\ UNCHANGED notBR

\* Publish, one iteration of the range loop, in the map's arbitrary order
PublishSend(p, id) ==
    /\ brPub[p].pc = "send"
    /\ id \in brPub[p].todo
    /\ LET r == SelectSend(brChan[id], brPub[p].ev, brBufferSize)
       IN  /\ brChan' = [brChan EXCEPT ![id] = r.ch]
           /\ brPub' = [brPub EXCEPT ![p] =
                          IF r.panic THEN [@ EXCEPT !.pc = "panic"]
                          ELSE [@ EXCEPT !.todo = @ \ {id}]]
    /\ UNCHANGED <<brBufferSize, brSubs, brNextID, brSeq, brEnded, brBefore, brLive,
                   brRecv, brEos, brCancelled, brCancelCalls, brCloses>>
    /\ UNCHANGED notBR

\* Publish, b.mu.RUnlock(): the loop is over and the call returns
PublishEnd(p) ==
    /\ brPub[p].pc = "send"
    /\ brPub[p].todo = {}
    /\ brPub' = [brPub EXCEPT ![p] = IdlePub]
    /\ brEnded' = brEnded \cup {brPub[p].ev}
    /\ UNCHANGED <<brBufferSize, brSubs, brNextID, brChan, brSeq, brBefore, brLive,
                   brRecv, brEos, brCancelled, brCancelCalls, brCloses>>
    /\ UNCHANGED notBR

\* Subscribe, under b.mu.Lock()
Subscribe ==
    /\ NoReader
    /\ brNextID < MaxSubs
    /\ brNextID' = brNextID + 1
    /\ brChan' = [brChan EXCEPT ![brNextID] = NoChan]
    /\ brSubs' = brSubs \cup {brNextID}
    /\ UNCHANGED <<brBufferSize, brPub, brSeq, brEnded, brBefore, brLive, brRecv, brEos,
                   brCancelled, brCancelCalls, brCloses>>
    /\ UNCHANGED notBR

\* the unsubscribe function of subscriber id, under b.mu.Lock(); it may be
\* called again after it has returned
Cancel(id) ==
    /\ NoReader
    /\ id < brNextID
    /\ brCancelCalls[id] < MaxCancels
    /\ LET u == Unsubscribe(brSubs, brChan, id)
       IN  /\ brSubs' = u.subs
           /\ brChan' = u.chans
           /\ brCloses' = [brCloses EXCEPT ![id] = @ + u.closes]
    /\ brCancelled' = [brCancelled EXCEPT ![id] = TRUE]
    /\ brCancelCalls' = [brCancelCalls EXCEPT ![id] = @ + 1]
    /\ UNCHANGED <<brBufferSize, brNextID, brPub, brSeq, brEnded, brBefore, brLive, brRecv,
                   brEos>>
    /\ UNCHANGED notBR

\* the subscriber receives from its channel: the oldest buffered event, or
\* the end of the stream when the channel is closed and empty
Receive(id) ==
    /\ id < brNextID
    /\ ~brEos[id]
    /\ IF brChan[id].buf # <<>>
       THEN /\ brRecv' = [brRecv EXCEPT ![id] = Append(@, Head(brChan[id].buf))]
            /\ brChan' = [brChan EXCEPT ![id].buf = Tail(@)]
            /\ UNCHANGED brEos
       ELSE /\ brChan[id].closed
            /\ brEos' = [brEos EXCEPT ![id] = TRUE]
            /\ UNCHANGED <<brRecv, brChan>>
    /\ UNCHANGED <<brBufferSize, brSubs, brNextID, brPub, brSeq, brEnded, brBefore, brLive,
                   brCancelled, brCancelCalls, brCloses>>
    /\ UNCHANGED notBR

BRNext ==
    \/ \E p \in Publishers : PublishBegin(p)
    \/ \E p \in Publishers, id \in SubIDs : PublishSend(p, id)
    \/ \E p \in Publishers : PublishEnd(p)
    \/ Subscribe
    \/ \E id \in SubIDs : Cancel(id)
    \/ \E id \in SubIDs : Receive(id)

(***************************************************************************)
(* Analytics logger (internal/analytics).  Log callers send on the bounded *)
(* channel l.events; one worker goroutine batches and flushes; Close       *)
(* closes l.done and waits for the worker.  A Log call's event is named by *)
(* the call's number.                                                      *)
(***************************************************************************)
NLoggers    == 2     \* goroutines calling Log
MaxLogs     == 4     \* Log calls in one run
LogBufArg   == 2     \* the positive Config.BufferSize
LogBatchArg == 2     \* the positive Config.BatchSize

DefaultLogBuffer == 100
DefaultLogBatch  == 100

Loggers   == 1..NLoggers
LogEvents == 1..MaxLogs

IdleLog == [pc |-> "idle", ev |-> 0]

\* New: non-positive sizes become the defaults
LoggerConfig(cfg) ==
    [buffer |-> IF cfg.buffer <= 0 THEN DefaultLogBuffer ELSE cfg.buffer,
     batch  |-> IF cfg.batch <= 0 THEN DefaultLogBatch ELSE cfg.batch]

\* a send that enqueues whether or not the channel has room
LogSend_Unbounded(ch, event, cap) ==
    [ch |-> Append(ch, event), queued |-> TRUE]

\* a send that enqueues the event when there is room and takes the default
\* case as well
LogSend_QueueAndDrop(ch, event, cap) ==
    IF Len(ch) < cap
    THEN [ch |-> Append(ch, event), queued |-> FALSE]
    ELSE [ch |-> ch, queued |-> FALSE]

\* Log: select { case l.events <- event: default: }
LogSend(ch, event, cap) ==
    IF Len(ch) < cap
    THEN [ch |-> Append(ch, event), queued |-> TRUE]
    ELSE [ch |-> ch, queued |-> FALSE]

\* how a flush of a non-empty batch may go: BeginTx fails, PrepareContext
\* fails, Commit fails, or the transaction commits after bad of the
\* ExecContext calls failed (each logged and skipped)
FlushOutcomes(events) ==
    {[at |-> "begin", bad |-> 0], [at |-> "prepare", bad |-> 0], [at |-> "commit", bad |-> 0]}
        \cup {[at |-> "none", bad |-> k] : k \in 0..Len(events)}

\* flush: what it adds to l.eventsLogged
Flush(events, outcome) ==
    IF Len(events) = 0 THEN 0
    ELSE IF outcome.at \in {"begin", "prepare", "commit"} THEN 0
    ELSE Len(events)

\* flush: the rows the transaction leaves in the table
Persisted(events, outcome) ==
    IF Len(events) = 0 THEN 0
    ELSE IF outcome.at \in {"begin", "prepare", "commit"} THEN 0
    ELSE Len(events) - outcome.bad

\* a drain that forgets the batch it holds when the channel is empty
FinalBatch_Forgotten(batch) == <<>>

\* drainAndFlush, channel empty: the batch that is flushed before returning
FinalBatch(batch) == IF Len(batch) > 0 THEN batch ELSE <<>>

LGInit ==
    /\ \E cfg \in {[buffer |-> LogBufArg, batch |-> LogBatchArg], [buffer |-> 0, batch |-> 0]} :
          /\ lgBufferSize = LoggerConfig(cfg).buffer
          /\ lgBatchSize = LoggerConfig(cfg).batch
    /\ lgEvents = <<>>
    /\ lgDone = FALSE
    /\ lgWorker = "run"
    /\ lgBatch = <<>>
    /\ lgLogged = 0
    /\ lgDropped = 0
    /\ lgPc = [c \in Loggers |-> IdleLog]
    /\ lgCalls = 0
    /\ lgLate = FALSE
    /\ lgPreClose = {}
    /\ lgFlushed = {}
    /\ lgTaken = <<>>
    /\ lgFlushes = <<>>
    /\ lgFailed = {}
    /\ lgPersisted = 0
    /\ lgClose = "none"

\* the logger while another component is examined
LGQuiet ==
    /\ lgBufferSize = DefaultLogBuffer
    /\ lgBatchSize = DefaultLogBatch
    /\ lgEvents = <<>>
    /\ lgDone = FALSE
    /\ lgWorker = "run"
    /\ lgBatch = <<>>
    /\ lgLogged = 0
    /\ lgDropped = 0
    /\ lgPc = [c \in Loggers |-> IdleLog]
    /\ lgCalls = 0
    /\ lgLate = FALSE
    /\ lgPreClose = {}
    /\ lgFlushed = {}
    /\ lgTaken = <<>>
    /\ lgFlushes = <<>>
    /\ lgFailed = {}
    /\ lgPersisted = 0
    /\ lgClose = "none"

\* Log, the select: the event is queued and the call returns, or the default
\* case is taken
LogSelect(c) ==
    /\ lgPc[c].pc = "idle"
    /\ lgCalls < MaxLogs
    /\ lgCalls' = lgCalls + 1
    /\ lgLate' = (lgLate \/ lgClose # "none")
    /\ LET r == LogSend(lgEvents, lgCalls + 1, lgBufferSize)
       IN  /\ lgEvents' = r.ch
           /\ lgPc' = [lgPc EXCEPT ![c] = IF r.queued THEN IdleLog
                                          ELSE [pc |-> "drop", ev |-> lgCalls + 1]]
           /\ lgPreClose' = IF r.queued /\ lgClose = "none"
                            THEN lgPreClose \cup {lgCalls + 1} ELSE lgPreClose
    /\ UNCHANGED <<lgBufferSize, lgBatchSize, lgDone, lgWorker, lgBatch, lgLogged, lgDropped,
                   lgFlushed, lgFailed, lgPersisted, lgClose, lgTaken, lgFlushes>>
    /\ UNCHANGED notLG

\* Log, the default case: l.eventsDropped++ under l.mu, and the call returns
LogDrop(c) ==
    /\ lgPc[c].pc = "drop"
    /\ lgDropped' = lgDropped + 1
    /\ lgPc' = [lgPc EXCEPT ![c] = IdleLog]
    /\ UNCHANGED <<lgBufferSize, lgBatchSize, lgEvents, lgDone, lgWorker, lgBatch, lgLogged,
                   lgCalls, lgLate, lgPreClose, lgFlushed, lgFailed, lgPersisted, lgClose,
                   lgTaken, lgFlushes>>
    /\ UNCHANGED notLG

\* the worker calls flush on a batch
DoFlush(batch) ==
    \E o \in FlushOutcomes(batch) :
        /\ lgLogged' = lgLogged + Flush(batch, o)
        /\ lgPersisted' = lgPersisted + Persisted(batch, o)
        /\ lgFlushed' = lgFlushed \cup {batch[i] : i \in 1..Len(batch)}
        /\ lgFlushes' = Append(lgFlushes, batch)
        /\ lgFailed' = IF o.at # "none"
                       THEN lgFailed \cup {<<batch[i], o.at>> : i \in 1..Len(batch)}
                       ELSE lgFailed

\* a worker that flushes only once the batch has outgrown the batch size
TakeEvent_LateFlush ==
    /\ lgEvents # <<>>
    /\ lgEvents' = Tail(lgEvents)
    /\ lgTaken' = Append(lgTaken, Head(lgEvents))
    /\ LET batch == Append(lgBatch, Head(lgEvents))
       IN  IF Len(batch) > lgBatchSize
           THEN DoFlush(batch) /\ lgBatch' = <<>>
           ELSE /\ lgBatch' = batch
                /\ UNCHANGED <<lgLogged, lgFlushed, lgFailed, lgPersisted, lgFlushes>>

\* the worker receives an event, appends it, and flushes a full batch
TakeEvent ==
    /\ lgEvents # <<>>
    /\ lgEvents' = Tail(lgEvents)
    /\ lgTaken' = Append(lgTaken, Head(lgEvents))
    /\ LET batch == Append(lgBatch, Head(lgEvents))
       IN  IF Len(batch) >= lgBatchSize
           THEN DoFlush(batch) /\ lgBatch' = <<>>
           ELSE /\ lgBatch' = batch
                /\ UNCHANGED <<lgLogged, lgFlushed, lgFailed, lgPersisted, lgFlushes>>

\* worker, case event := <-l.events
WorkerRecv ==
    /\ lgWorker = "run"
    /\ TakeEvent
    /\ UNCHANGED <<lgBufferSize, lgBatchSize, lgDone, lgWorker, lgDropped, lgPc, lgCalls,
                   lgLate, lgPreClose, lgClose>>
    /\ UNCHANGED notLG

\* worker, case <-ticker.C with a non-empty batch (with an empty one the
\* case changes nothing)
WorkerTick ==
    /\ lgWorker = "run"
    /\ Len(lgBatch) > 0
    /\ DoFlush(lgBatch)
    /\ lgBatch' = <<>>
    /\ UNCHANGED <<lgBufferSize, lgBatchSize, lgEvents, lgDone, lgWorker, lgDropped, lgPc,
                   lgCalls, lgLate, lgPreClose, lgClose, lgTaken>>
    /\ UNCHANGED notLG

\* worker, case <-l.done: it enters drainAndFlush
WorkerDone ==
    /\ lgWorker = "run"
    /\ lgDone
    /\ lgWorker' = "drain"
    /\ UNCHANGED <<lgBufferSize, lgBatchSize, lgEvents, lgDone, lgBatch, lgLogged, lgDropped,
                   lgPc, lgCalls, lgLate, lgPreClose, lgFlushed, lgFailed, lgPersisted, lgClose,
                   lgTaken, lgFlushes>>
    /\ UNCHANGED notLG

\* drainAndFlush, one pass of its loop: take an event, or, the channel being
\* empty, flush what is left and let the worker return
WorkerDrain ==
    /\ lgWorker = "drain"
    /\ IF lgEvents # <<>>
       THEN TakeEvent /\ UNCHANGED lgWorker
       ELSE /\ IF FinalBatch(lgBatch) # <<>>
               THEN DoFlush(FinalBatch(lgBatch))
               ELSE UNCHANGED <<lgLogged, lgFlushed, lgFailed, lgPersisted, lgFlushes>>
            /\ lgBatch' = <<>>
            /\ lgWorker' = "exit"
            /\ UNCHANGED <<lgEvents, lgTaken>>
    /\ UNCHANGED <<lgBufferSize, lgBatchSize, lgDone, lgDropped, lgPc, lgCalls, lgLate,
                   lgPreClose, lgClose>>
    /\ UNCHANGED notLG

\* Close: close(l.done), then wait
CloseBegin ==
    /\ lgClose = "none"
    /\ lgDone' = TRUE
    /\ lgClose' = "wait"
    /\ UNCHANGED <<lgBufferSize, lgBatchSize, lgEvents, lgWorker, lgBatch, lgLogged, lgDropped,
                   lgPc, lgCalls, lgLate, lgPreClose, lgFlushed, lgFailed, lgPersisted,
                   lgTaken, lgFlushes>>
    /\ UNCHANGED notLG

\* Close returns: nil once wg.Wait has returned, or the timeout error once
\* the context is done
CloseReturn ==
    /\ lgClose = "wait"
    /\ \/ lgWorker = "exit" /\ lgClose' = "nil"
       \/ lgClose' = "timeout"
    /\ UNCHANGED <<lgBufferSize, lgBatchSize, lgEvents, lgDone, lgWorker, lgBatch, lgLogged,
                   lgDropped, lgPc, lgCalls, lgLate, lgPreClose, lgFlushed, lgFailed, lgPersisted,
                   lgTaken, lgFlushes>>
    /\ UNCHANGED notLG

LGNext ==
    \/ \E c \in Loggers : LogSelect(c)
    \/ \E c \in Loggers : LogDrop(c)
    \/ WorkerRecv
    \/ WorkerTick
    \/ WorkerDone
    \/ WorkerDrain
    \/ CloseBegin
    \/ CloseReturn

(***************************************************************************)
(* rules.New and Matcher.Match applied to submitted rule sets              *)
(***************************************************************************)
MaxRules == 3     \* rules in one submitted set

\* the rules a set is drawn from: four that compile and overlap, one with a
\* zero limit and window, and one for each way a rule can fail to compile
RulePool ==
    {[name |-> <<"a">>, pattern |-> <<"/", "a">>, methods |-> {}, priority |-> 1,
      limit |-> 1, window |-> 1, identifyBy |-> IdentifyByIP, headerName |-> ""],
     [name |-> <<"b">>, pattern |-> <<"/", "*">>, methods |-> {"get"}, priority |-> 2,
      limit |-> 2, window |-> 1, identifyBy |-> IdentifyByHeader, headerName |-> "X-Key"],
     [name |-> <<"c">>, pattern |-> <<"/", ":", "i", "d">>, methods |-> {}, priority |-> 1,
      limit |-> 1, window |-> 2, identifyBy |-> "", headerName |-> ""],
     [name |-> <<"d">>, pattern |-> <<"/", "a">>, methods |-> {}, priority |-> 2,
      limit |-> 2, window |-> 2, identifyBy |-> IdentifyByIP, headerName |-> ""],
     [name |-> <<"z">>, pattern |-> <<"/", "b">>, methods |-> {}, priority |-> 3,
      limit |-> 0, window |-> 0, identifyBy |-> IdentifyByIP, headerName |-> ""],
     [name |-> <<"e">>, pattern |-> <<>>, methods |-> {}, priority |-> 1,
      limit |-> 1, window |-> 1, identifyBy |-> IdentifyByIP, headerName |-> ""],
     [name |-> <<"f">>, pattern |-> <<"a">>, methods |-> {}, priority |-> 2,
      limit |-> 1, window |-> 1, identifyBy |-> IdentifyByIP, headerName |-> ""],
     [name |-> <<"g">>, pattern |-> <<"/", ":">>, methods |-> {}, priority |-> 1,
      limit |-> 1, window |-> 1, identifyBy |-> IdentifyByIP, headerName |-> ""],
     [name |-> <<"h">>, pattern |-> <<"/", ":", "1">>, methods |-> {}, priority |-> 2,
      limit |-> 1, window |-> 1, identifyBy |-> IdentifyByIP, headerName |-> ""],
     [name |-> <<"i">>, pattern |-> <<"/", "*", "/", "a">>, methods |-> {}, priority |-> 1,
      limit |-> 1, window |-> 1, identifyBy |-> IdentifyByIP, headerName |-> ""],
     [name |-> <<"j">>, pattern |-> <<"/", "a">>, methods |-> {}, priority |-> 2,
      limit |-> 1, window |-> 1, identifyBy |-> IdentifyByHeader, headerName |-> ""]}

RuleSets == UNION {[1..n -> RulePool] : n \in 0..MaxRules}

MatchRequests ==
    [method : {"get", "POST"},
     path : {<<"/", "a">>, <<"/", "b">>, <<"/", "a", "/", "b">>, <<"/">>}]
NoMatchRequest == [method |-> "", path |-> <<>>]
NoNew == [nil |-> TRUE, err |-> NoError, compiled |-> <<>>]

RLInit ==
    /\ rlRules \in RuleSets
    /\ rlPc = "init"
    /\ rlNew = NoNew
    /\ rlReq = NoMatchRequest
    /\ rlMatch = NoMatch

\* the rules engine while another component is examined
RLQuiet ==
    /\ rlRules = <<>>
    /\ rlPc = "init"
    /\ rlNew = NoNew
    /\ rlReq = NoMatchRequest
    /\ rlMatch = NoMatch

\* m, err := rules.New(rules)
RulesNew ==
    /\ rlPc = "init"
    /\ rlNew' = New(rlRules)
    /\ rlPc' = "new"
    /\ UNCHANGED <<rlRules, rlReq, rlMatch>>
    /\ UNCHANGED notRL

\* m.Match(method, path), on the matcher New returned without error
RulesMatch ==
    /\ rlPc = "new"
    /\ ~rlNew.nil
    /\ \E q \in MatchRequests :
          /\ rlReq' = q
          /\ rlMatch' = Match(rlNew.compiled, q.method, q.path)
    /\ rlPc' = "matched"
    /\ UNCHANGED <<rlRules, rlNew>>
    /\ UNCHANGED notRL

RLNext == RulesNew \/ RulesMatch

(***************************************************************************)
(* Matcher.Match called by concurrent goroutines on one compiled matcher   *)
(***************************************************************************)
NMatchers     == 2     \* goroutines calling Match
MaxMatches    == 3     \* Match calls in one run
MaxMatchRules == 2     \* rules in the compiled set

Matchers == 1..NMatchers

\* rules that compile: a literal path, a parameter, a wildcard under a
\* prefix, a literal with a dot, a literal ending in "*", a bare wildcard
MatchPool ==
    {[name |-> <<"h", "e", "a", "l", "t", "h">>, pattern |-> <<"/", "a", "p", "i", "/", "h", "e", "a", "l", "t", "h">>,
      methods |-> {}, priority |-> 2, limit |-> 1, window |-> 1,
      identifyBy |-> IdentifyByIP, headerName |-> ""],
     [name |-> <<"i", "t", "e", "m">>, pattern |-> <<"/", "a", "p", "i", "/", ":", "i", "d">>,
      methods |-> {}, priority |-> 2, limit |-> 1, window |-> 1,
      identifyBy |-> IdentifyByIP, headerName |-> ""],
     [name |-> <<"a", "p", "i">>, pattern |-> <<"/", "a", "p", "i", "/", "*">>,
      methods |-> {"get"}, priority |-> 1, limit |-> 1, window |-> 1,
      identifyBy |-> IdentifyByIP, headerName |-> ""],
     [name |-> <<"d", "o", "t">>, pattern |-> <<"/", "a", ".", "b">>,
      methods |-> {}, priority |-> 2, limit |-> 1, window |-> 1,
      identifyBy |-> IdentifyByIP, headerName |-> ""],
     [name |-> <<"s", "t", "a", "r">>, pattern |-> <<"/", "a", "*">>,
      methods |-> {}, priority |-> 2, limit |-> 1, window |-> 1,
      identifyBy |-> IdentifyByIP, headerName |-> ""],
     [name |-> <<"a", "l", "l">>, pattern |-> <<"/", "*">>,
      methods |-> {}, priority |-> 1, limit |-> 1, window |-> 1,
      identifyBy |-> IdentifyByIP, headerName |-> ""]}

MatchRuleSets == UNION {[1..n -> MatchPool] : n \in 1..MaxMatchRules}

\* request paths, as r.URL.Path holds them (percent-decoded: "%0A" is "\n")
MatchPaths ==
    {<<"/", "a", "p", "i", "/", "h", "e", "a", "l", "t", "h">>,
     <<"/", "a", "p", "i", "/", "h", "e", "a", "l", "t", "h", "z">>,
     <<"/", "a", "p", "i", "/", "h", "e", "a", "l", "t", "h", "/">>,
     <<"/", "a", "p", "i">>,
     <<"/", "a", "p", "i", "/">>,
     <<"/", "a", "p", "i", "/", "a", "/", "b">>,
     <<"/", "a", "p", "i", "/", "a", "\n", "b">>,
     <<"/", "a", ".", "b">>,
     <<"/", "a", "x", "b">>,
     <<"/", "a", "*">>,
     <<"/", "a", "*", "x">>,
     <<"/", "a", "*", "/", "b">>}

PathRequests ==
    [method : {"get"}, path : MatchPaths]
        \cup [method : {"POST"}, path : {<<"/", "a", "p", "i", "/", "a", "/", "b">>, <<"/", "a", "p", "i", "/", "h", "e", "a", "l", "t", "h">>}]

\* m.compiled after a Match call that examined compiled[i]: Match assigns
\* nothing to the matcher
MatcherAfter_MoveToFront(compiled, i) ==
    <<compiled[i]>> \o SubSeq(compiled, 1, i - 1) \o SubSeq(compiled, i + 1, Len(compiled))

MatcherAfter(compiled, i) == compiled

\* the matcher rules.New returned for a rule set that compiles; no call yet
MTInit ==
    /\ mtRules \in MatchRuleSets
    /\ mtMatcher = New(mtRules).compiled
    /\ mtPc = [g \in Matchers |-> "idle"]
    /\ mtReq = [g \in Matchers |-> NoMatchRequest]
    /\ mtIdx = [g \in Matchers |-> 0]
    /\ mtRet = [g \in Matchers |-> NoMatch]
    /\ mtCalls = 0

\* the matcher while another component is examined
MTQuiet ==
    /\ mtRules = <<>>
    /\ mtMatcher = <<>>
    /\ mtPc = [g \in Matchers |-> "idle"]
    /\ mtReq = [g \in Matchers |-> NoMatchRequest]
    /\ mtIdx = [g \in Matchers |-> 0]
    /\ mtRet = [g \in Matchers |-> NoMatch]
    /\ mtCalls = 0

\* m.Match(method, path) is called: the loop over m.compiled begins
MatchCall(g) ==
    /\ mtPc[g] \in {"idle", "done"}
    /\ mtCalls < MaxMatches
    /\ \E q \in PathRequests : mtReq' = [mtReq EXCEPT ![g] = q]
    /\ mtIdx' = [mtIdx EXCEPT ![g] = 1]
    /\ mtRet' = [mtRet EXCEPT ![g] = NoMatch]
    /\ mtPc' = [mtPc EXCEPT ![g] = "loop"]
    /\ mtCalls' = mtCalls + 1
    /\ UNCHANGED <<mtRules, mtMatcher>>
    /\ UNCHANGED notMT

\* one iteration of "for _, cr := range m.compiled": skip the rule on its
\* methods or its regex, or return it with its params
MatchIterate(g) ==
    /\ mtPc[g] = "loop"
    /\ mtIdx[g] <= Len(mtMatcher)
    /\ LET cr == mtMatcher[mtIdx[g]]
           q  == mtReq[g]
       IN  IF /\ cr.methods = {} \/ ToUpper(q.method) \in cr.methods
              /\ RegexMatches(cr.regex, q.path)
           THEN /\ mtRet' = [mtRet EXCEPT ![g] =
                                [found |-> TRUE, rule |-> cr.rule,
                                 params |-> Params(cr.paramNames, Submatches(cr.regex, q.path))]]
                /\ mtPc' = [mtPc EXCEPT ![g] = "done"]
                /\ mtIdx' = mtIdx
           ELSE /\ mtIdx' = [mtIdx EXCEPT ![g] = @ + 1]
                /\ UNCHANGED <<mtRet, mtPc>>
    /\ mtMatcher' = MatcherAfter(mtMatcher, mtIdx[g])
    /\ UNCHANGED <<mtRules, mtReq, mtCalls>>
    /\ UNCHANGED notMT

\* the loop ended without a rule: return nil
MatchReturnNil(g) ==
    /\ mtPc[g] = "loop"
    /\ mtIdx[g] > Len(mtMatcher)
    /\ mtRet' = [mtRet EXCEPT ![g] = NoMatch]
    /\ mtPc' = [mtPc EXCEPT ![g] = "done"]
    /\ UNCHANGED <<mtRules, mtMatcher, mtReq, mtIdx, mtCalls>>
    /\ UNCHANGED notMT

MTNext ==
    \/ \E g \in Matchers : MatchCall(g)
    \/ \E g \in Matchers : MatchIterate(g)
    \/ \E g \in Matchers : MatchReturnNil(g)

(***************************************************************************)
(* Request identity: GatewayProxy.clientKey and the per-rule limiter key,  *)
(* applied to pairs of requests                                            *)
(***************************************************************************)
\* index of the first and of the last c in s, 0 if there is none
IndexByte(s, c) ==
    LET idx == {i \in 1..Len(s) : s[i] = c}
    IN  IF idx = {} THEN 0 ELSE CHOOSE i \in idx : \A j \in idx : i <= j
LastIndexByte(s, c) ==
    LET idx == {i \in 1..Len(s) : s[i] = c}
    IN  IF idx = {} THEN 0 ELSE CHOOSE i \in idx : \A j \in idx : i >= j

HostPortError == [err |-> TRUE, host |-> <<>>, port |-> <<>>]

\* net.SplitHostPort
SplitHostPort(hostport) ==
    LET n == Len(hostport)
        i == LastIndexByte(hostport, ":")
    IN  IF i = 0 THEN HostPortError
        ELSE IF hostport[1] = "["
        THEN LET end == IndexByte(hostport, "]")
             IN  IF end = 0 \/ end = n \/ end + 1 # i THEN HostPortError
                 ELSE IF IndexByte(SubSeq(hostport, 2, n), "[") # 0 THEN HostPortError
                 ELSE IF IndexByte(SubSeq(hostport, end + 1, n), "]") # 0 THEN HostPortError
                 ELSE [err |-> FALSE, host |-> SubSeq(hostport, 2, end - 1),
                       port |-> SubSeq(hostport, i + 1, n)]
        ELSE LET host == SubSeq(hostport, 1, i - 1)
             IN  IF IndexByte(host, ":") # 0 THEN HostPortError
                 ELSE IF IndexByte(hostport, "[") # 0 THEN HostPortError
                 ELSE IF IndexByte(hostport, "]") # 0 THEN HostPortError
                 ELSE [err |-> FALSE, host |-> host, port |-> SubSeq(hostport, i + 1, n)]

Unknown == <<"u", "n", "k", "n", "o", "w", "n">>

\* a clientKey that takes the forwarded token whatever gp.trustProxy is
ClientKey_AlwaysTrust(trustProxy, xffHeader, remoteAddr) ==
    LET xff       == TrimSpace(xffHeader)
        parts     == Split(xff, ",")
        candidate == TrimSpace(parts[1])
        hp        == SplitHostPort(TrimSpace(remoteAddr))
        trimmed   == TrimSpace(remoteAddr)
    IN  IF xff # <<>> /\ Len(parts) > 0 /\ candidate # <<>> THEN candidate
        ELSE IF ~hp.err /\ hp.host # <<>> THEN hp.host
        ELSE IF trimmed # <<>> THEN trimmed
        ELSE Unknown

\* GatewayProxy.clientKey; xff and remoteAddr are the X-Forwarded-For
\* value ("" when the header is absent) and r.RemoteAddr
ClientKey(trustProxy, xffHeader, remoteAddr) ==
    LET xff       == TrimSpace(xffHeader)
        parts     == Split(xff, ",")
        candidate == TrimSpace(parts[1])
        hp        == SplitHostPort(TrimSpace(remoteAddr))
        trimmed   == TrimSpace(remoteAddr)
    IN  IF trustProxy /\ xff # <<>> /\ Len(parts) > 0 /\ candidate # <<>> THEN candidate
        ELSE IF ~hp.err /\ hp.host # <<>> THEN hp.host
        ELSE IF trimmed # <<>> THEN trimmed
        ELSE Unknown

XffValues ==
    {<<>>, <<"a">>, <<" ", "a", " ">>, <<"a", ",", "b">>, <<",", "b">>,
     <<" ", ",", " ", "b">>, <<",">>}
RemoteAddrs ==
    {<<"c", ":", "1">>, <<"d", ":", "1">>, <<" ", "c", ":", "1">>, <<"c">>, <<":", "1">>, <<>>,
     <<"[", "c", ":", "c", "]", ":", "1">>}
HeaderValues == {<<>>, <<"u">>, <<" ", "u", " ">>, <<"v">>}

IdentityRequests == [xff : XffValues, remote : RemoteAddrs, header : HeaderValues]
IdentityRules ==
    {[name |-> <<"a">>, pattern |-> <<"/", "a">>, methods |-> {}, priority |-> 1,
      limit |-> 1, window |-> 1, identifyBy |-> IdentifyByIP, headerName |-> ""],
     [name |-> <<"b">>, pattern |-> <<"/", "*">>, methods |-> {"get"}, priority |-> 2,
      limit |-> 2, window |-> 1, identifyBy |-> IdentifyByHeader, headerName |-> "X-Key"]}
NoIdentity == [client |-> <<>>, id |-> <<>>, key |-> <<>>]

CKInit ==
    /\ ckTrust \in BOOLEAN
    /\ ckRule \in IdentityRules
    /\ ckReq \in [1..2 -> IdentityRequests]
    /\ ckPc = "init"
    /\ ckOut = [i \in 1..2 |-> NoIdentity]

\* identity derivation while another component is examined
CKQuiet ==
    /\ ckTrust = FALSE
    /\ ckRule = NoRule
    /\ ckReq = [i \in 1..2 |-> [xff |-> <<>>, remote |-> <<>>, header |-> <<>>]]
    /\ ckPc = "init"
    /\ ckOut = [i \in 1..2 |-> NoIdentity]

\* ServeHTTP up to the limiter key, for a request the rule matched
Identify(i) ==
    /\ ckPc = "init" \/ ckPc = "one"
    /\ ckOut[i] = NoIdentity
    /\ LET clientID == ClientKey(ckTrust, ckReq[i].xff, ckReq[i].remote)
           id == RuleClientID(ckRule, [clientID |-> clientID, header |-> ckReq[i].header])
       IN  ckOut' = [ckOut EXCEPT ![i] = [client |-> clientID, id |-> id,
                                          key |-> RuleKey(ckRule.name, id)]]
    /\ ckPc' = IF ckPc = "init" THEN "one" ELSE "done"
    /\ UNCHANGED <<ckTrust, ckRule, ckReq>>
    /\ UNCHANGED notCK

CKNext == \E i \in 1..2 : Identify(i)

(***************************************************************************)
(* Limiter (internal/limiter): Allow against its store                     *)
(***************************************************************************)
MaxAllows == 3     \* Allow calls in one run

LimiterConfigs == [limit : {1, GlobalLimit}, window : {1, 2}]
LimiterKeys    == {"", "a", "b"}

NoAllowRet   == [err |-> "", res |-> ZeroResult]
KeyRequired  == "limiter: key is required"
StoreFailed  == "store error"

\* an Allow that passes a window of its own to the store
AllowArgs_UnitWindow(limit, window, key) == [key |-> key, limit |-> limit, window |-> 1]

\* Allow: the arguments of l.store.CheckSlidingWindow
AllowArgs(limit, window, key) == [key |-> key, limit |-> limit, window |-> window]

\* Allow: what it returns when the store has answered
AllowReturn(out) == [err |-> IF out.err THEN StoreFailed ELSE "", res |-> out.res]

LMInit ==
    /\ \E cfg \in LimiterConfigs : lmLimit = cfg.limit /\ lmWindow = cfg.window
    /\ lmPc = "idle"
    /\ lmKey = ""
    /\ lmCalls = <<>>
    /\ lmOut = NoOut
    /\ lmRet = NoAllowRet
    /\ lmAllows = 0

\* the limiter while another component is examined
LMQuiet ==
    /\ lmLimit = GlobalLimit
    /\ lmWindow = 1
    /\ lmPc = "idle"
    /\ lmKey = ""
    /\ lmCalls = <<>>
    /\ lmOut = NoOut
    /\ lmRet = NoAllowRet
    /\ lmAllows = 0

\* Allow up to the call of the store: an empty key returns at once
AllowCall ==
    /\ lmPc \in {"idle", "done"}
    /\ lmAllows < MaxAllows
    /\ lmAllows' = lmAllows + 1
    /\ lmOut' = NoOut
    /\ \E key \in LimiterKeys :
          /\ lmKey' = key
          /\ IF key = ""
             THEN /\ lmCalls' = <<>>
                  /\ lmRet' = [err |-> KeyRequired, res |-> ZeroResult]
                  /\ lmPc' = "done"
             ELSE /\ lmCalls' = <<AllowArgs(lmLimit, lmWindow, key)>>
                  /\ lmRet' = NoAllowRet
                  /\ lmPc' = "store"
    /\ UNCHANGED <<lmLimit, lmWindow>>
    /\ UNCHANGED notLM

\* the store answers and Allow returns the answer
AllowStoreReturns ==
    /\ lmPc = "store"
    /\ \E out \in Outcomes(lmCalls[1].limit) :
          /\ lmOut' = out
          /\ lmRet' = AllowReturn(out)
    /\ lmPc' = "done"
    /\ UNCHANGED <<lmLimit, lmWindow, lmKey, lmCalls, lmAllows>>
    /\ UNCHANGED notLM

LMNext == AllowCall \/ AllowStoreReturns

(***************************************************************************)
(* RedisStorage (internal/storage): its operations against Close.  rs.mu   *)
(* is a sync.RWMutex: operations hold it shared, Close holds it alone.     *)
(***************************************************************************)
NStorageProcs   == 3     \* goroutines using the storage
MaxStorageCalls == 4     \* calls in one run
MaxScans        == 2     \* SCAN rounds of one Reset

StorageProcs == 1..NStorageProcs
StorageOps   == {"Increment", "GetCount", "CheckSlidingWindow", "Reset", "Ping"}

ErrStorageClosed == "ErrStorageClosed"

IdleStorageCall == [pc |-> "idle", op |-> "", late |-> FALSE, n |-> 0]
NoStorageRet    == [op |-> "", late |-> FALSE, ret |-> ""]

\* an operation that does not look at rs.closed
CheckClosed_Skipped(closed) == "run"

\* if rs.closed { return ErrStorageClosed }
CheckClosed(closed) == IF closed THEN ErrStorageClosed ELSE "run"

RSInit ==
    /\ rsClosed = FALSE
    /\ rsReaders = {}
    /\ rsWriter = 0
    /\ rsCall = [g \in StorageProcs |-> IdleStorageCall]
    /\ rsRet = [g \in StorageProcs |-> NoStorageRet]
    /\ rsCalls = 0
    /\ rsCloses = 0
    /\ rsClientCloses = 0
    /\ rsLateCmds = {}

\* the storage while another component is examined
RSQuiet == RSInit

\* a goroutine calls an operation or Close; late: a Close had returned before
StorageCall(g) ==
    /\ rsCall[g].pc = "idle"
    /\ rsCalls < MaxStorageCalls
    /\ rsCalls' = rsCalls + 1
    /\ \E op \in StorageOps \cup {"Close"} :
          rsCall' = [rsCall EXCEPT ![g] = [pc |-> "lock", op |-> op, late |-> rsCloses > 0, n |-> 0]]
    /\ UNCHANGED <<rsClosed, rsReaders, rsWriter, rsRet, rsCloses, rsClientCloses, rsLateCmds>>
    /\ UNCHANGED notRS

\* rs.mu.RLock()
StorageRLock(g) ==
    /\ rsCall[g].pc = "lock"
    /\ rsCall[g].op # "Close"
    /\ rsWriter = 0
    /\ rsReaders' = rsReaders \cup {g}
    /\ rsCall' = [rsCall EXCEPT ![g].pc = "check"]
    /\ UNCHANGED <<rsClosed, rsWriter, rsRet, rsCalls, rsCloses, rsClientCloses, rsLateCmds>>
    /\ UNCHANGED notRS

\* the closed check: return ErrStorageClosed (deferred RUnlock), or go on
StorageCheck(g) ==
    /\ rsCall[g].pc = "check"
    /\ IF CheckClosed(rsClosed) = ErrStorageClosed
       THEN /\ rsRet' = [rsRet EXCEPT ![g] = [op |-> rsCall[g].op, late |-> rsCall[g].late,
                                              ret |-> ErrStorageClosed]]
            /\ rsReaders' = rsReaders \ {g}
            /\ rsCall' = [rsCall EXCEPT ![g] = IdleStorageCall]
       ELSE /\ rsCall' = [rsCall EXCEPT ![g].pc = "cmd"]
            /\ UNCHANGED <<rsRet, rsReaders>>
    /\ UNCHANGED <<rsClosed, rsWriter, rsCalls, rsCloses, rsClientCloses, rsLateCmds>>
    /\ UNCHANGED notRS

\* one command goes to the server (script run, GET, SCAN with DEL, PING); the
\* operation returns its result or its error, or Reset scans once more
StorageCommand(g) ==
    /\ rsCall[g].pc = "cmd"
    /\ rsLateCmds' = IF rsCall[g].late THEN rsLateCmds \cup {rsCall[g].op} ELSE rsLateCmds
    /\ \/ \E r \in {"ok", "error"} :
             /\ rsRet' = [rsRet EXCEPT ![g] = [op |-> rsCall[g].op, late |-> rsCall[g].late,
                                               ret |-> r]]
             /\ rsReaders' = rsReaders \ {g}
             /\ rsCall' = [rsCall EXCEPT ![g] = IdleStorageCall]
       \/ /\ rsCall[g].op = "Reset"
          /\ rsCall[g].n + 1 < MaxScans
          /\ rsCall' = [rsCall EXCEPT ![g].n = @ + 1]
          /\ UNCHANGED <<rsRet, rsReaders>>
    /\ UNCHANGED <<rsClosed, rsWriter, rsCalls, rsCloses, rsClientCloses>>
    /\ UNCHANGED notRS

\* Close: rs.mu.Lock()
StorageLock(g) ==
    /\ rsCall[g].pc = "lock"
    /\ rsCall[g].op = "Close"
    /\ rsWriter = 0
    /\ rsReaders = {}
    /\ rsWriter' = g
    /\ rsCall' = [rsCall EXCEPT ![g].pc = "close"]
    /\ UNCHANGED <<rsClosed, rsReaders, rsRet, rsCalls, rsCloses, rsClientCloses, rsLateCmds>>
    /\ UNCHANGED notRS

\* Close under the lock: nil if closed already, else set closed and return
\* what rs.client.Close() returns
StorageClose(g) ==
    /\ rsCall[g].pc = "close"
    /\ IF rsClosed
       THEN /\ rsRet' = [rsRet EXCEPT ![g] = [op |-> "Close", late |-> rsCall[g].late,
                                              ret |-> "ok"]]
            /\ UNCHANGED <<rsClosed, rsClientCloses>>
       ELSE /\ rsClosed' = TRUE
            /\ rsClientCloses' = rsClientCloses + 1
            /\ \E r \in {"ok", "error"} :
                  rsRet' = [rsRet EXCEPT ![g] = [op |-> "Close", late |-> rsCall[g].late,
                                                 ret |-> r]]
    /\ rsWriter' = 0
    /\ rsCloses' = rsCloses + 1
    /\ rsCall' = [rsCall EXCEPT ![g] = IdleStorageCall]
    /\ UNCHANGED <<rsReaders, rsCalls, rsLateCmds>>
    /\ UNCHANGED notRS

RSNext ==
    \E g \in StorageProcs :
        \/ StorageCall(g)
        \/ StorageRLock(g)
        \/ StorageCheck(g)
        \/ StorageCommand(g)
        \/ StorageLock(g)
        \/ StorageClose(g)

(***************************************************************************)
(* Store keys: what ServeHTTP hands to the store on the rule path, and to  *)
(* the limiter (which passes it on unchanged) on the global path, for two  *)
(* requests of a gateway that trusts X-Forwarded-For                       *)
(***************************************************************************)
KeyTrustProxy == TRUE

KeyRuleNames == {<<"a">>, <<"a", ":", "b">>}
KeyRules ==
    {[name |-> n, pattern |-> <<"/", "a">>, methods |-> {}, priority |-> 1,
      limit |-> 1, window |-> 1, identifyBy |-> by,
      headerName |-> IF by = IdentifyByHeader THEN "X-Key" ELSE ""] :
        n \in KeyRuleNames, by \in {IdentifyByIP, IdentifyByHeader}}
KeyScopes == KeyRules \cup {NoRule}

\* values of the first X-Forwarded-For token and of the rule's header
KeyTokens == {<<"c">>, <<"b", ":", "c">>, <<"r", "u", "l", "e", ":", "a", ":", "c">>}
KeyRequests == [xff : KeyTokens, remote : {<<"d", ":", "1">>}, header : {<<>>} \cup KeyTokens]

NoKey == [scope |-> "", rule |-> <<>>, id |-> <<>>, key |-> <<>>]

KYInit ==
    /\ kyScope \in [1..2 -> KeyScopes]
    /\ kyReq \in [1..2 -> KeyRequests]
    /\ kyPc = [i \in 1..2 |-> "idle"]
    /\ kyKey = [i \in 1..2 |-> NoKey]

\* the store keys while another component is examined
KYQuiet ==
    /\ kyScope = [i \in 1..2 |-> NoRule]
    /\ kyReq = [i \in 1..2 |-> [xff |-> <<>>, remote |-> <<>>, header |-> <<>>]]
    /\ kyPc = [i \in 1..2 |-> "idle"]
    /\ kyKey = [i \in 1..2 |-> NoKey]

\* ServeHTTP up to the store: gp.store.CheckSlidingWindow(ruleKey, ...) for a
\* request its rule matched, gp.limiter.Allow(clientID), which calls
\* l.store.CheckSlidingWindow(key, ...), for one no rule matched
StoreKey(i) ==
    /\ kyPc[i] = "idle"
    /\ LET clientID == ClientKey(KeyTrustProxy, kyReq[i].xff, kyReq[i].remote)
           req == [clientID |-> clientID, header |-> kyReq[i].header]
       IN  kyKey' = [kyKey EXCEPT ![i] =
                        IF kyScope[i] # NoRule
                        THEN [scope |-> "rule", rule |-> kyScope[i].name,
                              id    |-> RuleClientID(kyScope[i], req),
                              key   |-> RuleCheckArgs(kyScope[i], req).key]
                        ELSE [scope |-> "global", rule |-> <<>>, id |-> clientID,
                              key   |-> AllowArgs(GlobalLimit, 1, GlobalCheckArgs(req).key).key]]
    /\ kyPc' = [kyPc EXCEPT ![i] = "done"]
    /\ UNCHANGED <<kyScope, kyReq>>
    /\ UNCHANGED notKY

KYNext == \E i \in 1..2 : StoreKey(i)

(***************************************************************************)
(* Specifications                                                          *)
(***************************************************************************)
InitSW == SWInit /\ GWQuiet /\ BRQuiet /\ LGQuiet /\ RLQuiet /\ CKQuiet /\ LMQuiet /\ RSQuiet /\ MTQuiet /\ KYQuiet
SpecSW == InitSW /\ [][SWNext]_vars

InitGW == GWInit /\ SWQuiet /\ BRQuiet /\ LGQuiet /\ RLQuiet /\ CKQuiet /\ LMQuiet /\ RSQuiet /\ MTQuiet /\ KYQuiet
SpecGW == InitGW /\ [][GWNext]_vars

InitBroker == BRInit /\ SWQuiet /\ GWQuiet /\ LGQuiet /\ RLQuiet /\ CKQuiet /\ LMQuiet /\ RSQuiet /\ MTQuiet /\ KYQuiet
SpecBroker == InitBroker /\ [][BRNext]_vars

InitLog == LGInit /\ SWQuiet /\ GWQuiet /\ BRQuiet /\ RLQuiet /\ CKQuiet /\ LMQuiet /\ RSQuiet /\ MTQuiet /\ KYQuiet
SpecLog == InitLog /\ [][LGNext]_vars

InitRules == RLInit /\ SWQuiet /\ GWQuiet /\ BRQuiet /\ LGQuiet /\ CKQuiet /\ LMQuiet /\ RSQuiet /\ MTQuiet /\ KYQuiet
SpecRules == InitRules /\ [][RLNext]_vars

InitLimiter == LMInit /\ SWQuiet /\ GWQuiet /\ BRQuiet /\ LGQuiet /\ RLQuiet /\ CKQuiet /\ RSQuiet /\ MTQuiet /\ KYQuiet
SpecLimiter == InitLimiter /\ [][LMNext]_vars

InitStorage == RSInit /\ SWQuiet /\ GWQuiet /\ BRQuiet /\ LGQuiet /\ RLQuiet /\ CKQuiet /\ LMQuiet /\ MTQuiet /\ KYQuiet
SpecStorage == InitStorage /\ [][RSNext]_vars

InitMatch == MTInit /\ SWQuiet /\ GWQuiet /\ BRQuiet /\ LGQuiet /\ RLQuiet /\ CKQuiet /\ LMQuiet /\ RSQuiet /\ KYQuiet
SpecMatch == InitMatch /\ [][MTNext]_vars

InitKeys == KYInit /\ SWQuiet /\ GWQuiet /\ BRQuiet /\ LGQuiet /\ RLQuiet /\ CKQuiet /\ LMQuiet /\ RSQuiet /\ MTQuiet
SpecKeys == InitKeys /\ [][KYNext]_vars

InitIdentity == CKInit /\ SWQuiet /\ GWQuiet /\ BRQuiet /\ LGQuiet /\ RLQuiet /\ LMQuiet /\ RSQuiet /\ MTQuiet /\ KYQuiet
SpecIdentity == InitIdentity /\ [][CKNext]_vars

\* a goroutine inside Log keeps running, whatever the worker does
LogCallerRuns(c) == LogDrop(c)
SpecLogLive == SpecLog /\ \A c \in Loggers : WF_vars(LogCallerRuns(c))

\* the worker goroutine keeps running and its ticker keeps firing
WorkerRuns == WorkerRecv \/ WorkerTick \/ WorkerDone \/ WorkerDrain
SpecLogWorkerLive == SpecLog /\ WF_vars(WorkerRuns)

\* a goroutine inside Publish keeps running, whatever the subscribers do
PublisherRuns(p) == (\E id \in SubIDs : PublishSend(p, id)) \/ PublishEnd(p)
SpecBrokerLive == SpecBroker /\ \A p \in Publishers : WF_vars(PublisherRuns(p))

(***************************************************************************)
(* Claims on the sliding-window store                                      *)
(***************************************************************************)
SWDone == {c \in Callers : swPc[c] = "done"}
SWAllowed == {c \in SWDone : swRet[c].ret[1] = 1}

\* every call made so far has returned, one per caller, all for the bucket key
\* of the window the clock is still in
SWOneRound ==
    /\ SWDone # {}
    /\ swCalls = Cardinality(SWDone)
    /\ \A c, d \in SWDone : swRet[c].current_key = swRet[d].current_key
    /\ \A c \in SWDone : swRet[c].current_key[2] = now \div WindowMs

\* C1: N callers of one key, limit L, on an empty store, all in the same window
\* bucket: exactly min(N, L) of them are allowed, whatever the interleaving of
\* their clock reads and script runs.
C1_ConcurrentCallersAdmitMin ==
    (~swFull /\ SWOneRound) => Cardinality(SWAllowed) = Min(Cardinality(SWDone), swLimit)

\* C1 witness: more callers than the limit have all returned; one was refused.
C1_Witness ==
    /\ ~swFull /\ SWOneRound
    /\ SWDone = Callers
    /\ swLimit < NCallers
    /\ SWAllowed # SWDone

\* the estimate of the specification, in exact arithmetic
ExactEstimate(previous_count, current_count, elapsed_ms, window_ms) ==
    (previous_count * (window_ms - elapsed_ms)) \div window_ms + current_count

\* C2: a check whose exact estimate E = floor(C_prev * (1 - elapsed/W)) + C_cur
\* is at least the limit is refused and changes no counter; otherwise it is
\* allowed, C_cur grows by exactly 1 and C_prev (and every other key) is unchanged.
C2_DecisionFollowsEstimate ==
    [][\A c \in Callers :
         (swPc[c] = "script" /\ swPc'[c] = "done") =>
            LET a     == swArgs[c]
                Ccur  == redis[a.current_key].val
                Cprev == redis[a.previous_key].val
                E     == ExactEstimate(Cprev, Ccur, a.elapsed_ms, a.window_ms)
            IN  IF E >= a.limit
                THEN swRet'[c].ret[1] = 0 /\ redis' = redis
                ELSE /\ swRet'[c].ret[1] = 1
                     /\ redis'[a.current_key].val = Ccur + 1
                     /\ \A k \in RedisKeys \ {a.current_key} : redis'[k] = redis[k]
      ]_vars

\* C3: the counter of every window bucket is at most the limit.
C3_BucketCounterAtMostLimit ==
    \A k \in RedisKeys : redis[k].val <= swLimit

\* C3 witness: a bucket filled to the limit by this run's calls has refused a call.
C3_Witness ==
    \E c \in SWDone :
        /\ swRet[c].ret[1] = 0
        /\ swRet[c].current_key[2] >= 1
        /\ redis[swRet[c].current_key].val = swLimit
        /\ \E d \in SWAllowed : swRet[d].current_key = swRet[c].current_key

\* a check of a fresh key (nothing counted in the previous bucket) that is
\* the i-th on its bucket after i - 1 admitted ones: up to the limit it is
\* admitted with remaining = limit - i, after that refused with remaining 0
FreshKeyStep(c) ==
    LET a == swArgs[c]
        i == redis[a.current_key].val + 1
        res == swRet'[c].res
    IN  (swPc[c] = "script" /\ swPc'[c] = "done" /\ redis[a.previous_key].val = 0) =>
            /\ res.limit = a.limit
            /\ IF i <= a.limit
               THEN res.allowed /\ res.remaining = a.limit - i
               ELSE ~res.allowed /\ res.remaining = 0

\* C20: remaining is never negative, and on a fresh key the i-th consecutive
\* admitted check (1 <= i <= limit) reports remaining = limit - i and the
\* check after the limit-th is refused with remaining = 0 and the same limit.
C20_RemainingCountsDown ==
    /\ [](\A c \in SWDone : swRet[c].res.remaining >= 0)
    /\ [][\A c \in Callers : FreshKeyStep(c)]_vars

\* C20 witness: on a fresh key a check was admitted with remaining =
\* limit - count, and a later check of the same bucket, the limit reached,
\* was refused with remaining 0.
C20_Witness ==
    \E c, d \in SWDone :
        /\ swRet[c].current_key = swRet[d].current_key
        /\ swRet[c].ret[3] = 0 /\ swRet[d].ret[3] = 0
        /\ swRet[d].res.allowed
        /\ swRet[d].res.remaining = swLimit - swRet[d].ret[2]
        /\ ~swRet[c].res.allowed
        /\ swRet[c].res.remaining = 0 /\ swRet[c].res.limit = swLimit
        /\ swRet[c].ret[2] = swLimit

\* checks admitted at the n instants t, t + 1, ..., t + n - 1
RECURSIVE AdmittedFrom(_, _)
AdmittedFrom(t, n) ==
    IF n = 0 \/ t > MaxTime THEN 0 ELSE swAdmits[t] + AdmittedFrom(t + 1, n - 1)

\* in every rolling interval of one window, at most twice the limit is admitted
AdmittedAtMostTwiceLimit ==
    \A t \in Instants : AdmittedFrom(t, WindowMs) <= 2 * swLimit

\* a check is admitted only where the exact estimate is strictly below the limit
AllowedOnlyBelowLimit(c) ==
    LET a == swArgs[c]
        E == ExactEstimate(redis[a.previous_key].val, redis[a.current_key].val,
                           a.elapsed_ms, a.window_ms)
    IN  (swPc[c] = "script" /\ swPc'[c] = "done" /\ swRet'[c].ret[1] = 1) => E < a.limit

\* C25: for one identifier and limit L, under any arrival pattern, at most
\* L * (1 + epsilon) <= 2L requests are admitted within any rolling interval of
\* one window, and a check is only allowed at an instant where the weighted
\* estimate E = floor(C_prev * (1 - elapsed/W)) + C_cur is strictly below L.
C25_AdmissionBound ==
    /\ []AdmittedAtMostTwiceLimit
    /\ [][\A c \in Callers : AllowedOnlyBelowLimit(c)]_vars

\* the first instant after bucket b + 1
EndOfNextBucket(b) == (b + 2) * WindowMs

\* a step that is not past the end of bucket b + 1 keeps the counter of bucket b
CounterKept(k) ==
    (redis[k].val > 0 /\ now' < EndOfNextBucket(k[2])) => redis'[k].val >= redis[k].val

\* C26: a bucket counter created by an admitted check in bucket b expires no
\* earlier than the end of bucket b + 1 and is present at every instant of
\* bucket b + 1, whenever in bucket b it was created and however many
\* increments it received: a check in bucket b + 1 reads it as previous count.
C26_CounterOutlivesNextBucket ==
    /\ [](\A k \in RedisKeys : redis[k].val > 0 => redis[k].exp >= EndOfNextBucket(k[2]))
    /\ [][\A k \in RedisKeys : CounterKept(k)]_vars

\* C26 witness: at the last instant of bucket b + 1 the counter of bucket b,
\* created by this run after the first instant of bucket b, is still there
\* and a check issued at that instant has read it as its previous count.
C26_Witness ==
    \E c \in SWDone :
        LET b == swRet[c].current_key[2] - 1
            k == <<swRet[c].current_key[1], b>>
        IN  /\ b >= 1
            /\ now = EndOfNextBucket(b) - 1
            /\ swRet[c].at = now
            /\ redis[k].val > 0
            /\ redis[k].exp > (b + 2) * WindowMs
            /\ swRet[c].ret[3] = redis[k].val

\* caller d holds a denial of bucket b and caller c's pending check of the same
\* key was issued in bucket b + 1, strictly after the denial's resetAt, with
\* nothing admitted since the denied check was issued
AfterReset(c, d) ==
    LET a == swArgs[c]
        r == swRet[d]
    IN  /\ swPc[c] = "script" /\ swPc[d] = "done"
        /\ ~r.res.allowed
        /\ r.res.resetAt = (r.current_key[2] + 1) * WindowMs
        /\ a.key = r.current_key[1]
        /\ a.current_key[2] = r.current_key[2] + 1
        /\ a.at > r.res.resetAt
        /\ AdmittedFrom(r.at, (now - r.at) + 1) = 0

\* the first check after the reset instant is admitted
AdmittedAfterReset(c) ==
    (swPc'[c] = "done" /\ \E d \in Callers \ {c} : AfterReset(c, d)) => swRet'[c].res.allowed

\* C27: a key denied in bucket b with resetAt = (b + 1) * W is admitted again
\* by the first check issued strictly after resetAt within bucket b + 1,
\* provided nothing was admitted for the key in between; and resetAt is never
\* before the instant of its check and never more than W after it.
C27_AdmittedAgainAfterReset ==
    /\ [](\A c \in SWDone : /\ swRet[c].res.resetAt >= swRet[c].at
                            /\ swRet[c].res.resetAt <= swRet[c].at + WindowMs)
    /\ [][\A c \in Callers : AdmittedAfterReset(c)]_vars

\* C27 witness: a check was denied in bucket b because this run had filled the
\* bucket to the limit; the next check, issued after the denial's resetAt in
\* bucket b + 1 and reading the full previous bucket, is the only one admitted
\* since.
C27_Witness ==
    \E c, d \in SWDone :
        LET b == swRet[d].current_key[2]
        IN  /\ c # d
            /\ ~swRet[d].res.allowed
            /\ b >= 1
            /\ swRet[d].res.resetAt = (b + 1) * WindowMs
            /\ swRet[c].current_key = <<swRet[d].current_key[1], b + 1>>
            /\ swRet[c].at > swRet[d].res.resetAt
            /\ swRet[c].res.allowed
            /\ swRet[c].ret[3] = swLimit
            /\ AdmittedFrom(swRet[d].at, (now - swRet[d].at) + 1) = 1

(***************************************************************************)
(* Claims on the gateway                                                   *)
(***************************************************************************)
TheEvent(r) == rqEvents[r][1]

C5_DeniedIsRejected ==
    \A r \in Reqs :
        (rqPc[r] = "done" /\ rqOut[r].called /\ ~rqOut[r].err /\ ~rqOut[r].res.allowed) =>
            /\ rqResp[r] = [from |-> "gateway", status |-> 429]
            /\ ~rqFwd[r]
            /\ Len(rqEvents[r]) = 1
            /\ ~TheEvent(r).allowed /\ TheEvent(r).status = 429
            /\ TheEvent(r).limit = rqOut[r].res.limit
            /\ TheEvent(r).remaining = rqOut[r].res.remaining
            /\ rqSunk[r] = (IF gpEventSink THEN 1 ELSE 0)

\* C5 witness: one request was refused by its rule, one by the global limiter.
C5_Witness ==
    \E r1, r2 \in Reqs :
        /\ rqPc[r1] = "done" /\ rqCall[r1].via = "store"
        /\ ~rqOut[r1].err /\ ~rqOut[r1].res.allowed
        /\ rqPc[r2] = "done" /\ rqCall[r2].via = "limiter"
        /\ ~rqOut[r2].err /\ ~rqOut[r2].res.allowed /\ rqOut[r2].res.remaining # 0
        /\ gpEventSink

\* C6: a request that went on to match reads the rule-set reference once: the
\* reference it calls Match on is the one it compared with nil, and it never
\* calls Match on nil.
C6_SingleSnapshot ==
    \A r \in Reqs :
        rqUsed[r] # NoRef => (rqUsed[r] = rqTested[r] /\ rqPc[r] # "panic")

\* the rule a request finds in the rule set it called Match on
RuleFound(r) == Match(MatcherOf(rqUsed[r]), rqReq[r].method, rqReq[r].path).rule

\* C7: the rule set a request is matched against is one that was installed
\* between its start and its Match call (so a request that starts after
\* SetMatcher(S2) has returned, with no later swap, is matched against S2),
\* and a request that found its rule keeps that rule to the end: the key,
\* limit and window it passes to the store and the rule name in its response
\* are that rule's, whatever is installed by then.
C7_SwapSeenAndRuleKept ==
    \A r \in Reqs :
        (rqUsed[r] # NoRef /\ rqUsed[r] # "nil") =>
            /\ rqUsed[r] \in rqSeen[r]
            /\ rqPc[r] = "rule" => rqRule[r] = RuleFound(r)
            /\ (rqPc[r] = "done" /\ rqCall[r].via = "store") =>
                  /\ rqCall[r] = RuleCheckArgs(RuleFound(r), rqReq[r])
                  /\ rqHdr[r].set => rqHdr[r].rule = RuleFound(r).name

\* C7 witness: a request holds a rule of S1 while S2 is installed, and a
\* request that started after the swap was checked against S2's rule for the
\* same path, which has another limit.
C7_Witness ==
    \E r1, r2 \in Reqs :
        /\ rqPc[r1] = "rule" /\ rqUsed[r1] = "M1" /\ gpMatcher = "M2"
        /\ rqPc[r2] = "done" /\ rqSeen[r2] = {"M2"} /\ rqUsed[r2] = "M2"
        /\ rqCall[r2].via = "store"
        /\ rqReq[r2].path = rqReq[r1].path
        /\ rqCall[r2].limit # rqRule[r1].limit

(***************************************************************************)
(* Claims on the broker                                                    *)
(***************************************************************************)
\* publisher p sends to subscriber id in this step
SendsTo(p, id) ==
    /\ brPub[p].pc = "send" /\ id \in brPub[p].todo
    /\ brPub'[p].pc = "send" /\ brPub'[p].todo = brPub[p].todo \ {id}

\* everything delivered to a subscriber so far, in delivery order
Delivered(id) == brRecv[id] \o brChan[id].buf

\* C8: a send enqueues the event if that subscriber's queue has room and
\* otherwise drops it for that subscriber only, touching no other queue; the
\* call returns only after it has visited every subscriber; and a Publish that
\* has begun always returns, even if no subscriber ever receives.
C8_PublishNeverWaits ==
    /\ [][\A p \in Publishers :
            /\ \A id \in SubIDs :
                  SendsTo(p, id) =>
                     /\ brChan'[id].buf =
                           (IF Len(brChan[id].buf) < brBufferSize
                            THEN Append(brChan[id].buf, brPub[p].ev)
                            ELSE brChan[id].buf)
                     /\ \A o \in SubIDs \ {id} : brChan'[o] = brChan[o]
            /\ (brPub[p].pc = "send" /\ brPub'[p].pc = "idle") => brPub[p].todo = {}
        ]_vars
    /\ \A p \in Publishers : (brPub[p].pc = "send") ~> (brPub[p].pc = "idle")

\* C8 witness: a Publish has returned that found one subscriber's queue full
\* (that subscriber never received anything) and delivered to the other.
C8_Witness ==
    \E e \in brEnded, a, b \in SubIDs :
        /\ e \in brLive[a] /\ e \in brLive[b]
        /\ brRecv[a] = <<>> /\ Len(brChan[a].buf) = brBufferSize
        /\ e \notin Range(brChan[a].buf)
        /\ e \in Range(Delivered(b))

\* C9: what a subscriber is delivered are events published while it was
\* registered, each at most once, in an order that agrees with the order of
\* the Publish calls: an event whose Publish had returned before another's
\* began is never delivered after it.
C9_DeliveryInPublishOrder ==
    \A id \in SubIDs :
        LET d == Delivered(id)
        IN  /\ Range(d) \subseteq brLive[id]
            /\ \A i, j \in 1..Len(d) :
                  i < j => (d[i] # d[j] /\ d[j] \notin brBefore[d[i]])

\* C9 witness: a subscriber has received two events and missed one that was
\* published, between them, while it was registered.
C9_Witness ==
    \E id \in SubIDs :
        /\ Len(brRecv[id]) = 2
        /\ \E e \in brLive[id] \cap brEnded :
              /\ e \notin Range(Delivered(id))
              /\ brRecv[id][1] \in brBefore[e]
              /\ e \in brBefore[brRecv[id][2]]

\* C10: once a subscriber's unsubscribe function has returned, the subscriber
\* is not in the registry, its channel is closed, and no step adds an event to
\* its queue: the queue only shrinks, so the receiver reaches the end of the
\* stream after the buffered events.
C10_CancelEndsStream ==
    [][\A id \in SubIDs :
          brCancelled[id] =>
             /\ id \notin brSubs /\ id \notin brSubs'
             /\ brChan[id].closed /\ brChan'[id].closed
             /\ \/ brChan'[id].buf = brChan[id].buf
                \/ brChan[id].buf # <<>> /\ brChan'[id].buf = Tail(brChan[id].buf)
             /\ brEos'[id] => brChan'[id].buf = <<>>
      ]_vars

\* C10 witness: a cancelled subscriber has received an event and then the end
\* of the stream, and a later Publish has returned without reaching it.
C10_Witness ==
    \E id \in SubIDs :
        /\ brCancelled[id] /\ brEos[id] /\ brRecv[id] # <<>>
        /\ \E e \in brEnded : e \notin brLive[id] /\ \A x \in brLive[id] : x < e

\* a step in which the unsubscribe function of subscriber id is called
CancelCalled(id) == brCancelCalls'[id] = brCancelCalls[id] + 1

\* C38: under any interleaving of Publish, Subscribe and cancel calls, no
\* Publish sends on a closed channel; a subscriber's channel is closed at most
\* once however often its cancel function is called; a cancel call touches no
\* other subscriber's registration or channel, and a call after the first
\* leaves the registry and every channel as they were.
C38_CancelIsIdempotent ==
    /\ [](\A p \in Publishers : brPub[p].pc # "panic")
    /\ [](\A id \in SubIDs : brCloses[id] <= 1)
    /\ [][\A id \in SubIDs :
            CancelCalled(id) =>
               /\ brSubs \ {id} \subseteq brSubs' /\ brSubs' \subseteq brSubs
               /\ \A o \in SubIDs \ {id} : brChan'[o] = brChan[o] /\ brCloses'[o] = brCloses[o]
               /\ brCancelCalls[id] >= 1 =>
                     brSubs' = brSubs /\ brChan' = brChan /\ brCloses' = brCloses
        ]_vars

\* C38 witness: one subscriber's cancel function has been called twice and
\* its channel closed once, while the other subscriber is still registered
\* and has received an event whose Publish began after the first was removed.
C38_Witness ==
    \E id, o \in SubIDs :
        /\ id # o /\ brCancelCalls[id] = MaxCancels /\ brCloses[id] = 1
        /\ o \in brSubs /\ brCloses[o] = 0
        /\ \E e \in Range(brRecv[o]) : e \in brEnded /\ e \notin brLive[id] /\ brLive[id] # {}

(***************************************************************************)
(* Claims on the analytics logger                                          *)
(***************************************************************************)
\* C11: once Close has returned nil and every Log call has returned, none of
\* them started after Close was called, logged + dropped equals the number of
\* Log calls, whatever the flushes' outcomes were.
C11_CountersAccountForEveryCall ==
    (lgClose = "nil" /\ ~lgLate /\ \A c \in Loggers : lgPc[c].pc = "idle") =>
        lgLogged + lgDropped = lgCalls

\* what a step may do to the channel and the counters when it is the select
\* of a Log call or the end of a Log call that took the default case
LogStepRule ==
    /\ (lgCalls' = lgCalls + 1) =>
          (/\ lgLogged' = lgLogged
           /\ lgDropped' = lgDropped
           /\ IF Len(lgEvents) < lgBufferSize
              THEN /\ lgEvents' = Append(lgEvents, lgCalls + 1)
                   /\ lgPc' = lgPc
              ELSE /\ lgEvents' = lgEvents
                   /\ \E c \in Loggers : lgPc[c].pc = "idle" /\ lgPc'[c].pc = "drop")
    /\ \A c \in Loggers :
          (lgPc[c].pc = "drop" /\ lgPc'[c].pc = "idle") =>
             (lgDropped' = lgDropped + 1 /\ lgEvents' = lgEvents /\ lgLogged' = lgLogged)
    /\ (lgDropped' # lgDropped) =>
          (\E c \in Loggers : lgPc[c].pc = "drop" /\ lgPc'[c].pc = "idle")

\* C12: the select of a Log call enqueues the event and leaves the counters
\* alone if the channel has room, and otherwise leaves the channel alone; the
\* call then adds exactly 1 to dropped; dropped changes in no other way; and a
\* Log call always returns, even if the worker never runs.
C12_LogNeverBlocks ==
    /\ [][LogStepRule]_vars
    /\ \A c \in Loggers : (lgPc[c].pc = "drop") ~> (lgPc[c].pc = "idle")

\* C12 witness: two Log calls found the channel full at the same time, the
\* first has counted its drop and the second is about to.
C12_Witness ==
    \E c, d \in Loggers :
        /\ c # d
        /\ lgPc[c].pc = "idle" /\ lgPc[d].pc = "drop"
        /\ lgDropped = 1 /\ lgCalls = lgBufferSize + 2
        /\ Len(lgEvents) = lgBufferSize

\* C13: when Close has returned nil the worker has returned and every event
\* that was in the channel before Close was called has been handed to flush.
C13_CloseDrains ==
    lgClose = "nil" => (lgWorker = "exit" /\ lgPreClose \subseteq lgFlushed)

\* C13 witness: Close returned nil after an event was flushed that was alone
\* in its batch, below the batch size, and was still queued when Close began.
C13_Witness ==
    /\ lgClose = "nil"
    /\ lgCalls = 1 /\ lgPreClose = {1} /\ lgFlushed = {1}
    /\ lgBatchSize > 1

\* events whose flush failed at BeginTx or at Commit
FailedBatches == {p[1] : p \in {q \in lgFailed : q[2] \in {"begin", "commit"}}}

\* C21: a flush that cannot begin or cannot commit its transaction adds
\* nothing to logged and adds the number of events of its batch to dropped.
C21_FailedFlushCountsDropped ==
    [][FailedBatches' # FailedBatches =>
          /\ lgLogged' = lgLogged
          /\ lgDropped' = lgDropped + Cardinality(FailedBatches' \ FailedBatches)]_vars

\* C22: logged equals the number of rows persisted, also when inserts
\* failed inside a transaction that committed.
C22_LoggedEqualsPersisted == lgLogged = lgPersisted

\* the events of a sequence of batches, in order
RECURSIVE Concat(_)
Concat(batches) ==
    IF batches = <<>> THEN <<>> ELSE Head(batches) \o Concat(Tail(batches))

\* a step of the worker's ticker case that finds a non-empty batch
TickStep ==
    /\ lgWorker = "run" /\ lgWorker' = "run"
    /\ lgTaken' = lgTaken /\ lgBatch # <<>> /\ lgBatch' # lgBatch

\* C39: between two steps of the worker its batch holds fewer than K events
\* (K the batch size): the step that brings it to K flushes exactly those K
\* events and empties it; the ticker case flushes a non-empty batch whole and
\* empties it; no flush is given an empty batch or more than K events; and
\* the events taken from the channel are, in the order taken, the events of
\* the flushes in call order followed by the batch still held, so each is
\* passed to one flush at most; and, the worker and its ticker running, a
\* non-empty batch is eventually flushed, so each is passed to exactly one.
C39_BatchBoundedFlushedOnceInOrder ==
    /\ [](Len(lgBatch) < lgBatchSize)
    /\ [](\A i \in 1..Len(lgFlushes) :
             Len(lgFlushes[i]) >= 1 /\ Len(lgFlushes[i]) <= lgBatchSize)
    /\ [](Concat(lgFlushes) \o lgBatch = lgTaken)
    /\ [](lgWorker = "exit" => lgBatch = <<>>)
    /\ (lgBatch # <<>>) ~> (lgBatch = <<>>)
    /\ [][/\ (lgTaken' # lgTaken /\ Len(lgBatch) + 1 = lgBatchSize) =>
               /\ lgFlushes' = Append(lgFlushes, Append(lgBatch, Head(lgEvents)))
               /\ lgBatch' = <<>>
          /\ TickStep => (lgFlushes' = Append(lgFlushes, lgBatch) /\ lgBatch' = <<>>)
        ]_vars

\* C39 witness: the worker has returned after three flushes: a full batch of
\* K = 2 events, a single event flushed by the ticker, and a single event
\* flushed at the end of the drain.
C39_Witness ==
    /\ lgWorker = "exit" /\ lgBatchSize = LogBatchArg
    /\ lgFlushes = <<(<<1, 2>>), (<<3>>), (<<4>>)>>
    /\ lgTaken = <<1, 2, 3, 4>>

\* Log calls that took the default case and have not yet counted the drop
PendingDrops == Cardinality({c \in Loggers : lgPc[c].pc = "drop"})

\* every Log call's event is in one place: the channel, the batch, a flush,
\* a drop being counted, or the dropped counter; logged counts flushed events
EachEventCountedOnce ==
    /\ lgCalls = Len(lgEvents) + Len(lgTaken) + PendingDrops + lgDropped
    /\ lgLogged <= Len(Concat(lgFlushes))

\* C40: whether Close has not been called, is waiting, or has returned, a Log
\* call's select can be taken at once and a call that took the default case
\* returns; logged and dropped never decrease; every event is accounted for
\* once, so none is counted both as logged and as dropped; and Close, while
\* waiting, can return the timeout error, can return nil as soon as the
\* worker has returned, and has returned nil only after the worker returned.
C40_LogAroundCloseIsHarmless ==
    /\ [](\A c \in Loggers :
            /\ (lgPc[c].pc = "idle" /\ lgCalls < MaxLogs) => ENABLED LogSelect(c)
            /\ lgPc[c].pc = "drop" => ENABLED LogDrop(c))
    /\ \A c \in Loggers : (lgClose # "none" /\ lgPc[c].pc = "drop") ~> (lgPc[c].pc = "idle")
    /\ [][lgLogged' >= lgLogged /\ lgDropped' >= lgDropped]_vars
    /\ []EachEventCountedOnce
    /\ [](lgClose = "nil" => lgWorker = "exit")
    /\ [](lgClose = "wait" => ENABLED (CloseReturn /\ lgClose' = "timeout"))
    /\ []((lgClose = "wait" /\ lgWorker = "exit") => ENABLED (CloseReturn /\ lgClose' = "nil"))

\* C40 witness: Close has returned nil after the one event logged before it
\* was flushed; of three Log calls begun after that, two filled the channel,
\* which nobody reads any more, and the third was dropped and counted.
C40_Witness ==
    /\ lgClose = "nil" /\ lgWorker = "exit" /\ lgLate
    /\ lgPreClose = {1} /\ lgTaken = <<1>> /\ lgLogged = 1
    /\ lgEvents = <<2, 3>> /\ lgDropped = 1 /\ lgCalls = 4
    /\ \A c \in Loggers : lgPc[c].pc = "idle"

(***************************************************************************)
(* Claims on the rules engine                                              *)
(***************************************************************************)
\* the rule accepts the request: its methods are empty or hold the method,
\* and its pattern's regex matches the path
RuleAccepts(r, q) ==
    LET c == Compile(r)
    IN  /\ c.err = ""
        /\ c.cr.methods = {} \/ ToUpper(q.method) \in c.cr.methods
        /\ RegexMatches(c.cr.regex, q.path)

\* positions in the submitted set of the rules that accept the request
Accepting == {i \in 1..Len(rlRules) : RuleAccepts(rlRules[i], rlReq)}

\* the accepting rule of highest priority, the first submitted among equals
Winner ==
    CHOOSE i \in Accepting :
        \A j \in Accepting :
            \/ rlRules[i].priority > rlRules[j].priority
            \/ rlRules[i].priority = rlRules[j].priority /\ i <= j

\* C14: Match returns the accepting rule of highest priority, among equal
\* priorities the one submitted first, and nothing only if no rule accepts.
C14_HighestPriorityFirstSubmitted ==
    rlPc = "matched" =>
        IF Accepting = {} THEN ~rlMatch.found
        ELSE rlMatch.found /\ rlMatch.rule = rlRules[Winner]

\* C14 witness: three rules accept; the first submitted has the lowest
\* priority, the other two share the highest, and the second was returned.
C14_Witness ==
    /\ rlPc = "matched"
    /\ Len(rlRules) = 3
    /\ Accepting = {1, 2, 3}
    /\ rlRules[1].priority < rlRules[2].priority
    /\ rlRules[2].priority = rlRules[3].priority
    /\ rlRules[2] # rlRules[3]
    /\ rlMatch.found /\ rlMatch.rule = rlRules[2]

\* the ways a rule is invalid: empty pattern, pattern not starting with "/",
\* empty or invalid parameter name, wildcard before the last segment,
\* identification by header without a header name
RuleInvalid(r) ==
    \/ r.pattern = <<>>
    \/ r.pattern # <<>> /\ r.pattern[1] # "/"
    \/ r.identifyBy = IdentifyByHeader /\ r.headerName = ""
    \/ /\ r.pattern # <<>>
       /\ LET segs == Split(r.pattern, "/")
          IN  \E i \in 2..Len(segs) :
                 \/ segs[i] = <<"*">> /\ i < Len(segs)
                 \/ /\ Len(segs[i]) > 0
                    /\ segs[i][1] = ":"
                    /\ ~IsValidIdentifier(Tail(segs[i]))

InvalidRules == {i \in 1..Len(rlRules) : RuleInvalid(rlRules[i])}

\* C15: when a submitted rule is invalid New returns no matcher and an error
\* that names the first invalid rule in submission order.
C15_InvalidRuleRejectsSet ==
    (rlPc # "init" /\ InvalidRules # {}) =>
        /\ rlNew.nil
        /\ rlNew.err.set
        /\ rlNew.err.rule = rlRules[CHOOSE i \in InvalidRules : \A j \in InvalidRules : i <= j].name

\* C15 witness: a valid rule followed by two different invalid ones; the
\* error names the second rule of the set.
C15_Witness ==
    /\ rlPc = "new"
    /\ Len(rlRules) = 3
    /\ InvalidRules = {2, 3}
    /\ rlRules[2].name # rlRules[3].name
    /\ rlNew.nil /\ rlNew.err.rule = rlRules[2].name

\* C16: every rule of a set that New compiled without error has a positive
\* limit and a positive window.
C16_CompiledRulesPositive ==
    (rlPc # "init" /\ ~rlNew.nil) =>
        \A i \in 1..Len(rlNew.compiled) :
            rlNew.compiled[i].rule.limit > 0 /\ rlNew.compiled[i].rule.window > 0

(***************************************************************************)
(* Claims on request identity                                              *)
(***************************************************************************)
\* the trimmed comma-separated tokens of an X-Forwarded-For value
XffTokens(xffHeader) ==
    LET parts == Split(xffHeader, ",")
    IN  [k \in 1..Len(parts) |-> TrimSpace(parts[k])]

\* the identity the specification gives a request whose remote address is
\* host:port
SpecifiedClient(trust, req) ==
    LET toks == XffTokens(req.xff)
        full == {k \in 1..Len(toks) : toks[k] # <<>>}
    IN  IF trust /\ full # {}
        THEN toks[CHOOSE k \in full : \A j \in full : k <= j]
        ELSE SplitHostPort(TrimSpace(req.remote)).host

\* C18: with trustForwardedFor enabled the identity is the leftmost non-empty
\* token of X-Forwarded-For, also when the first token is empty; otherwise it
\* is the host part of the remote address.
C18_LeftmostNonEmptyToken ==
    \A i \in 1..2 :
        (/\ ckOut[i] # NoIdentity
         /\ ~SplitHostPort(TrimSpace(ckReq[i].remote)).err
         /\ SplitHostPort(TrimSpace(ckReq[i].remote)).host # <<>>) =>
            ckOut[i].client = SpecifiedClient(ckTrust, ckReq[i])

\* C19: for a rule that identifies by header the limiter identity is the
\* trimmed header value, or the client identity when that is empty; two
\* requests whose non-empty trimmed header values differ get different
\* limiter keys, also from one client address, and two requests with the same
\* non-empty trimmed header value get the same key from any client addresses.
C19_HeaderIdentity ==
    (ckPc = "done" /\ ckRule.identifyBy = IdentifyByHeader) =>
        LET h1 == TrimSpace(ckReq[1].header)
            h2 == TrimSpace(ckReq[2].header)
        IN  /\ \A i \in 1..2 :
                  ckOut[i].id = IF TrimSpace(ckReq[i].header) # <<>>
                                THEN TrimSpace(ckReq[i].header) ELSE ckOut[i].client
            /\ (h1 # <<>> /\ h2 # <<>> /\ h1 # h2) => ckOut[1].key # ckOut[2].key
            /\ (h1 # <<>> /\ h1 = h2) => ckOut[1].key = ckOut[2].key

\* C19 witness: one client address, header values "u" and "v", two keys.
C19_Witness ==
    /\ ckPc = "done"
    /\ ckRule.identifyBy = IdentifyByHeader
    /\ ckReq[1].remote = ckReq[2].remote /\ ckReq[1].xff = ckReq[2].xff
    /\ ckOut[1].client = ckOut[2].client
    /\ TrimSpace(ckReq[1].header) = <<"u">> /\ TrimSpace(ckReq[2].header) = <<"v">>
    /\ ckOut[1].key # ckOut[2].key

(***************************************************************************)
(* Claims on the rate-limit response headers                               *)
(***************************************************************************)
\* the integer a client reads from a decimal header value; -1 if it is not
\* a sequence of digits
RECURSIVE ParseDecimal(_)
ParseDecimal(s) ==
    IF s = <<>> THEN -1
    ELSE LET d == CHOOSE k \in 0..10 : k = 10 \/ DecimalDigit(k) = s[Len(s)]
         IN  IF d = 10 THEN -1
             ELSE IF Len(s) = 1 THEN d
             ELSE LET hi == ParseDecimal(SubSeq(s, 1, Len(s) - 1))
                  IN  IF hi < 0 THEN -1 ELSE 10 * hi + d

\* the response to request r carries the two headers with the values of the
\* decision made for it
HeadersCarryDecision(r) ==
    /\ rqHdr[r].set
    /\ ParseDecimal(rqHdr[r].limit) = rqOut[r].res.limit
    /\ ParseDecimal(rqHdr[r].remaining) = rqOut[r].res.remaining

C23_AllowDelegatesOnce ==
    /\ lmPc = "store" =>
          lmCalls = <<[key |-> lmKey, limit |-> lmLimit, window |-> lmWindow]>>
    /\ lmPc = "done" =>
          IF lmKey = ""
          THEN lmCalls = <<>> /\ lmRet.err # "" /\ ~lmOut.called
          ELSE /\ lmCalls = <<[key |-> lmKey, limit |-> lmLimit, window |-> lmWindow]>>
               /\ lmOut.called
               /\ lmRet.res = lmOut.res
               /\ (lmRet.err # "") = lmOut.err

\* C23 witness: an Allow with an empty key has failed and a later one with
\* a key has returned the store's refusal.
C23_Witness ==
    /\ lmPc = "done"
    /\ lmAllows >= 2
    /\ lmKey = "a"
    /\ lmWindow = 2
    /\ lmOut.called /\ ~lmOut.err /\ ~lmRet.res.allowed
    /\ lmRet.res.limit = lmLimit

MTDone == {g \in Matchers : mtPc[g] = "done"}

\* C28: Match is pure for a fixed compiled rule set: it does not modify the
\* matcher, and repeated, interleaved or concurrent calls with the same method
\* and path return the same rule and the same params, those the rule set,
\* the method and the path determine.
C28_MatchIsPure ==
    /\ mtMatcher = New(mtRules).compiled
    /\ \A g \in MTDone : mtRet[g] = Match(New(mtRules).compiled, mtReq[g].method, mtReq[g].path)
    /\ \A g, h \in MTDone : mtReq[g] = mtReq[h] => mtRet[g] = mtRet[h]

\* C28 witness: after three calls, two goroutines hold the result of the same
\* request, a rule of a two-rule matcher together with its params.
C28_Witness ==
    \E g, h \in MTDone :
        /\ g # h
        /\ mtCalls = MaxMatches
        /\ Len(mtMatcher) = MaxMatchRules
        /\ mtReq[g] = mtReq[h]
        /\ mtRet[g].found /\ mtRet[h].found
        /\ mtRet[g].rule = mtMatcher[Len(mtMatcher)].rule
        /\ DOMAIN mtRet[g].params # {}

\* the segments of a pattern or of a path, the empty one before the leading
\* "/" left out
Segments(s) == Tail(Split(s, "/"))

\* the pattern has no wildcard segment
OnlyLiteralsAndParams(pattern) ==
    \A i \in 1..Len(Segments(pattern)) : Segments(pattern)[i] # <<"*">>

\* as many segments in the path as in the pattern, each literal equal to its
\* segment character for character, each parameter on a non-empty segment
SegmentsAgree(pattern, path) ==
    LET segs  == Segments(pattern)
        psegs == Segments(path)
    IN  /\ Len(psegs) = Len(segs)
        /\ \A i \in 1..Len(segs) :
              IF Len(segs[i]) > 0 /\ segs[i][1] = ":"
              THEN psegs[i] # <<>>
              ELSE psegs[i] = segs[i]

\* C29: a pattern made only of literal and parameter segments matches a path
\* only if the path has the same number of segments, each literal segment is
\* equal character for character (a dot only matches a dot) and each
\* parameter segment is non-empty; "/api/health" matches neither
\* "/api/healthz", "/api/health/" nor "/api".
C29_LiteralAndParamSegmentsMatchExactly ==
    \A g \in MTDone :
        (mtRet[g].found /\ OnlyLiteralsAndParams(mtRet[g].rule.pattern)) =>
            SegmentsAgree(mtRet[g].rule.pattern, mtReq[g].path)

\* the pattern is literal segments followed by one wildcard segment
IsPrefixWildcard(pattern) ==
    LET segs == Segments(pattern)
    IN  /\ Len(segs) >= 1
        /\ segs[Len(segs)] = <<"*">>
        /\ \A i \in 1..(Len(segs) - 1) :
              segs[i] # <<"*">> /\ ~(Len(segs[i]) > 0 /\ segs[i][1] = ":")

StartsWith(s, prefix) ==
    Len(s) >= Len(prefix) /\ SubSeq(s, 1, Len(prefix)) = prefix

\* what goroutine g's finished call shows of the wildcard rule at index i:
\* passed over only if the path does not start with the prefix, returned
\* only if it does, and then with the rest of the path as param "*"
WildcardOutcome(g, i) ==
    LET prefix == SubSeq(mtMatcher[i].rule.pattern, 1, Len(mtMatcher[i].rule.pattern) - 1)
        path   == mtReq[g].path
    IN  /\ i < mtIdx[g] => ~StartsWith(path, prefix)
        /\ i = mtIdx[g] =>
              /\ StartsWith(path, prefix)
              /\ mtRet[g].params =
                    [name \in {<<"*">>} |-> SubSeq(path, Len(prefix) + 1, Len(path))]

\* C30: the pattern "/prefix/*" matches exactly the paths that start with
\* "/prefix/" ("/prefix/" itself included, with an empty capture) and not
\* "/prefix"; the rest of the path after the prefix, slashes included, is
\* bound to the param named "*".
C30_WildcardMatchesPrefixAndBindsRest ==
    \A g \in MTDone : \A i \in 1..Len(mtMatcher) :
        (/\ IsPrefixWildcard(mtMatcher[i].rule.pattern)
         /\ mtMatcher[i].methods = {} \/ ToUpper(mtReq[g].method) \in mtMatcher[i].methods)
            => WildcardOutcome(g, i)

\* the final segment of the pattern is exactly the wildcard token
FinalSegmentIsWildcard(pattern) ==
    LET segs == Segments(pattern)
    IN  Len(segs) >= 1 /\ segs[Len(segs)] = <<"*">>

\* nothing of the path is left over once the pattern's segments are matched
NoTrailingCharacters(pattern, path) ==
    LET segs  == Segments(pattern)
        psegs == Segments(path)
        last  == segs[Len(segs)]
    IN  /\ Len(psegs) = Len(segs)
        /\ ~(Len(last) > 0 /\ last[1] = ":") => psegs[Len(segs)] = last

\* C31: only a pattern whose final segment is exactly "*" is a prefix match:
\* a compiled pattern whose final segment is anything else, one whose last
\* literal merely ends in the character "*" included, matches a path only
\* when the whole path matches, never a path with characters left over.
C31_OnlyWildcardSegmentIsPrefixMatch ==
    \A g \in MTDone :
        (mtRet[g].found /\ ~FinalSegmentIsWildcard(mtRet[g].rule.pattern)) =>
            /\ NoTrailingCharacters(mtRet[g].rule.pattern, mtReq[g].path)
            /\ SegmentsAgree(mtRet[g].rule.pattern, mtReq[g].path)

(***************************************************************************)
(* Claims on the gateway's events, limiter calls and upstream failures     *)
(***************************************************************************)
GWDone == {r \in Reqs : rqPc[r] = "done"}

\* C32: every request the gateway serves to the end publishes exactly one
\* Event, on the rule path (allowed, denied, failed open) and on the global
\* path (allowed, denied, failed open, no limiter): never none once it is
\* served and never two at any time; with an event sink configured the sink
\* receives every published Event.
C32_OneEventPerRequest ==
    \A r \in Reqs :
        /\ Len(rqEvents[r]) <= 1
        /\ r \in GWDone => Len(rqEvents[r]) = 1
        /\ rqSunk[r] = IF gpEventSink THEN Len(rqEvents[r]) ELSE 0

\* C32 witness: with a sink configured, one request was refused by its rule
\* and one went to a global limiter that failed; the sink got one Event of each.
C32_Witness ==
    /\ gpEventSink
    /\ \E r, q \in GWDone :
          /\ rqCall[r].via = "store" /\ ~rqOut[r].err /\ ~rqOut[r].res.allowed
          /\ rqCall[q].via = "limiter" /\ rqOut[q].err
          /\ rqSunk[r] = 1 /\ rqSunk[q] = 1

\* the one Event request r has published is an admission
AdmissionPublished(r) ==
    /\ Len(rqEvents[r]) = 1
    /\ rqEvents[r][1].allowed
    /\ rqEvents[r][1].status = 200

\* the upstream exchange of r starts only after its admission Event, and a
\* gateway answer after it is the 502 of the ErrorHandler
PublishedBeforeUpstream(r) ==
    /\ rqPc[r] = "upstream" => (AdmissionPublished(r) /\ ~rqFwd[r])
    /\ rqFwd[r] => AdmissionPublished(r)
    /\ (rqPc[r] = "done" /\ rqFwd[r] /\ rqResp[r].from = "gateway") =>
          /\ rqResp[r].status = 502
          /\ rqBody[r] = "bad gateway"

\* the step that makes the upstream exchange of r publishes nothing
UpstreamPublishesNothing(r) ==
    (rqPc[r] = "upstream" /\ rqPc'[r] = "done") =>
        /\ rqEvents'[r] = rqEvents[r]
        /\ rqSunk'[r] = rqSunk[r]
        /\ rqResp'[r].status # 429

\* C33: on every admitted path the admission Event is published before the
\* upstream exchange starts; an upstream transport failure then yields a 502
\* with body {"error":"bad gateway"}, publishes no further Event, and is
\* never answered as a 429.
C33_AdmissionPublishedBeforeUpstream ==
    /\ [](\A r \in Reqs : PublishedBeforeUpstream(r))
    /\ [][\A r \in Reqs : UpstreamPublishesNothing(r)]_vars

\* C33 witness: with a sink configured, an admitted request on the rule path
\* and one on the global path both met a transport failure and were answered
\* 502, each with its single admission Event in the sink.
C33_Witness ==
    /\ gpEventSink
    /\ \E r, q \in GWDone :
          /\ rqCall[r].via = "store" /\ rqCall[q].via = "limiter"
          /\ \A x \in {r, q} :
                /\ rqOut[x].res.allowed
                /\ rqFwd[x]
                /\ rqResp[x] = [from |-> "gateway", status |-> 502]
                /\ rqBody[x] = "bad gateway"
                /\ rqSunk[x] = 1

\* Match was called for request r and returned a rule
RuleMatched(r) ==
    /\ rqUsed[r] \notin {NoRef, "nil"}
    /\ Match(MatcherOf(rqUsed[r]), rqReq[r].method, rqReq[r].path).found

\* the limiter call of a served request is the one its path prescribes
LimiterCallFollowsMatch(r) ==
    /\ rqCall[r].via = "store" <=> RuleMatched(r)
    /\ rqCall[r].via = "store" => rqCall[r] = RuleCheckArgs(RuleFound(r), rqReq[r])
    /\ rqCall[r].via = "limiter" => rqCall[r] = GlobalCheckArgs(rqReq[r])
    /\ rqOut[r].called <=> rqCall[r].via # "none"

\* C34, as the code has it: a served request consults at most one limiter:
\* the per-rule sliding-window check, with the rule-scoped key and the rule's
\* limit and window, if and only if Match returned a rule; Limiter.Allow with
\* the client identity if and only if no rule was returned and a global
\* limiter is configured; none if no rule was returned and there is no
\* limiter.  A request that matched a rule never calls the global limiter.
C34_OneLimiterCallByMatch ==
    \A r \in GWDone :
        /\ LimiterCallFollowsMatch(r)
        /\ rqCall[r].via = "limiter" <=> (~RuleMatched(r) /\ gpLimiter)
        /\ rqCall[r].via = "none" <=> (~RuleMatched(r) /\ ~gpLimiter)

\* C34 witness: one served request was checked against its rule, another,
\* which no rule matched, against the global limiter.
C34_Witness ==
    \E r, q \in GWDone :
        /\ RuleMatched(r) /\ rqCall[r].via = "store" /\ rqCall[r].limit = rqRule[r].limit
        /\ ~RuleMatched(q) /\ rqCall[q].via = "limiter" /\ rqCall[q].key = rqReq[q].clientID
        /\ rqOut[r].called /\ rqOut[q].called

\* C34 as stated: every served request consults exactly one limiter, the
\* per-rule check if and only if a rule matched and the global limiter if and
\* only if none did.
C34_ExactlyOneLimiterDecision ==
    \A r \in GWDone :
        /\ LimiterCallFollowsMatch(r)
        /\ rqCall[r].via = "limiter" <=> ~RuleMatched(r)

(***************************************************************************)
(* Claims on the store key and on the client identity                      *)
(***************************************************************************)
\* the two requests were counted in the same scope: the same rule with the
\* same rule identity, or the global limiter with the same client identity
SameScope ==
    /\ kyKey[1].scope = kyKey[2].scope
    /\ kyKey[1].rule = kyKey[2].rule
    /\ kyKey[1].id = kyKey[2].id

\* C35: the store key is an injective function of its scope: two requests
\* are given the same key only if they matched the same rule with the same
\* rule identity, or both took the global path with the same client
\* identity, whatever the rule names, header values and X-Forwarded-For
\* tokens are (":" and a leading "rule:" included).
C35_StoreKeyInjective ==
    (kyPc[1] = "done" /\ kyPc[2] = "done" /\ kyKey[1].key = kyKey[2].key) => SameScope

\* the key the global limiter is given for the i-th request
GlobalKey(i) == GlobalCheckArgs([clientID |-> ckOut[i].client]).key

\* C36: with trustForwardedFor disabled the client identity does not depend
\* on X-Forwarded-For: two requests from the same remote address get the
\* same identity, whatever their X-Forwarded-For values, and so the same
\* global rate-limit counter.
C36_UntrustedHeaderIgnored ==
    (ckPc = "done" /\ ~ckTrust /\ ckReq[1].remote = ckReq[2].remote) =>
        /\ ckOut[1].client = ckOut[2].client
        /\ GlobalKey(1) = GlobalKey(2)
        /\ ckOut[1].client = ClientKey(FALSE, <<>>, ckReq[1].remote)

\* C36 witness: trust is off, two requests from one address carry different
\* X-Forwarded-For values, each with a non-empty first token, and have one
\* identity, the host of the address.
C36_Witness ==
    /\ ckPc = "done" /\ ~ckTrust
    /\ ckReq[1].remote = <<"c", ":", "1">> /\ ckReq[2].remote = ckReq[1].remote
    /\ ckReq[1].xff = <<"a">> /\ ckReq[2].xff = <<"a", ",", "b">>
    /\ ckOut[1].client = <<"c">> /\ ckOut[2].client = <<"c">>

\* the i-th request's identity is its first X-Forwarded-For token
TrustedTokenApplies(i) ==
    LET xff == TrimSpace(ckReq[i].xff)
    IN  ckTrust /\ xff # <<>> /\ TrimSpace(Split(xff, ",")[1]) # <<>>

\* the i-th request's remote address yields a host
RemoteHostParsed(i) ==
    LET hp == SplitHostPort(TrimSpace(ckReq[i].remote))
    IN  ~hp.err /\ hp.host # <<>>

\* C37: the derived client identity is never the empty string, and whenever
\* the remote socket address cannot be parsed into a host and no trusted
\* forwarded token applies, the identity is the literal "unknown".
C37_NonEmptyAndUnknownOnFailure ==
    ckPc = "done" =>
        \A i \in 1..2 :
            /\ ckOut[i].client # <<>>
            /\ (~TrustedTokenApplies(i) /\ ~RemoteHostParsed(i)) => ckOut[i].client = Unknown

====
